---- MODULE Spec2Model ----
(***************************************************************************)
(* Room-state coordination layer of yoyomusic (FastAPI backend).           *)
(*                                                                         *)
(* The module holds one state machine per component, each over its own     *)
(* variables and with its own specification:                               *)
(*   SpecRL     services/rate_limiter.py   sliding-window rate limiter     *)
(*   SpecPB     services/room_manager.py   PlaybackState hash              *)
(*   SpecPBStore   the same, with store calls that may fail                *)
(*   SpecVote   services/room_manager.py   vote sets                       *)
(*   SpecQueue  api/v1/endpoints/queue.py  queue transition engine         *)
(*   SpecPresence  api/v1/endpoints/ws.py, rooms.py   participant set      *)
(*   SpecLegacy    app.py   Flask-SocketIO room with repeat policies       *)
(*   SpecWS     services/ws_manager.py     event fanout manager            *)
(*   SpecWSLive    the same, with the restart of the listener scheduled    *)
(*   SpecYT     services/yt_service.py     media resolver gateway          *)
(*   SpecYTLive    the same, with a fair scheduler                         *)
(*   SpecYTCrash   the resolution calls, with a process that may crash     *)
(* Every await of the code is a step boundary: a coroutine is a sequence   *)
(* of atomic steps, each made of one store operation (Redis command, SQL   *)
(* statement) and the local code that follows it up to the next await.     *)
(***************************************************************************)
EXTENDS Integers, Sequences, FiniteSets, TLC

\* ------------------------------------------------------------ bounds
RLMaxTime == 3
RLProcs == 2
RLKeys == 2
RLTags == 2
PBMaxTime == 1
PBMaxPos == 1
PBSongs == 1
AVUsers == 2
AVItems == 2
AVMaxCalls == 4
QMaxSongs == 3
QUsers == 2
QMaxRequests == 2
WSSockets == 2
WSRooms == 2
WSMaxPublish == 2
WSMaxCrashes == 1
YTCalls == 4
YTProcs == 2
YTVids == 1
YTRefreshes == 1
LGUsers == 2
LGSongs == 3
LGMaxTime == 1

\* --------------------------------------------------------- variables
\* rate limiter
VARIABLES rlNow, rlZset, rlExpireAt, rlProcLast, rlSeen, rlAdmitted, rlLast

varsRL == <<rlNow, rlZset, rlExpireAt, rlProcLast, rlSeen, rlAdmitted, rlLast>>

\* playback state (one room)
VARIABLES pbNow, pbHash, pbOp, pbLast

varsPB == <<pbNow, pbHash, pbOp, pbLast>>

\* vote sets under AddVote calls
VARIABLES avVotes, avCall, avLog

varsAV == <<avVotes, avCall, avLog>>

\* queue endpoints of one room
VARIABLES qSongs, qHash, qVotes, qUsers, qReq, qStarted

varsQ == <<qSongs, qHash, qVotes, qUsers, qReq, qStarted>>

\* WebSocket connection manager of one process
VARIABLES wsSock, wsConns, wsSubscribed, wsRedisSub, wsPubsub, wsListener, wsInbox, wsUnsub,
          wsPublished

varsWS == <<wsSock, wsConns, wsSubscribed, wsRedisSub, wsPubsub, wsListener, wsInbox, wsUnsub,
            wsPublished>>

\* stream resolution service: shared cache and locks, the in-flight map of
\* each process, the calls
VARIABLES ytCache, ytLock, ytInflight, ytCall, ytUsed

varsYT == <<ytCache, ytLock, ytInflight, ytCall, ytUsed>>

\* websocket sessions of the room's users (the participant set is qUsers)
VARIABLES prWs

varsPR == <<prWs>>

\* one room of the Flask-SocketIO application (app.py)
VARIABLES lgRoom, lgSongs, lgUsers, lgHost, lgVotes, lgLast

varsLG == <<lgRoom, lgSongs, lgUsers, lgHost, lgVotes, lgLast>>

vars == <<varsRL, varsPB, varsAV, varsQ, varsWS, varsYT, varsPR, varsLG>>

nonRL == <<varsPB, varsAV, varsQ, varsWS, varsYT, varsPR, varsLG>>

nonPB == <<varsRL, varsAV, varsQ, varsWS, varsYT, varsPR, varsLG>>

nonAV == <<varsRL, varsPB, varsQ, varsWS, varsYT, varsPR, varsLG>>

nonQ == <<varsRL, varsPB, varsAV, varsWS, varsYT, varsPR, varsLG>>

nonWS == <<varsRL, varsPB, varsAV, varsQ, varsYT, varsPR, varsLG>>

nonYT == <<varsRL, varsPB, varsAV, varsQ, varsWS, varsPR, varsLG>>

nonPR == <<varsRL, varsPB, varsAV, varsQ, varsWS, varsYT, varsLG>>

nonLG == <<varsRL, varsPB, varsAV, varsQ, varsWS, varsYT, varsPR>>


\* ====================================================================
\* Rate limiter (services/rate_limiter.py)
\* ====================================================================
\* The two call sites use (limit, window_s) = (5, 30) and (10, 60); the
\* model runs the same function with a small limit and window.
RLLimit == 2
RLWindow == 2

RLTimeSet == 0..RLMaxTime
RLKeySet == 1..RLKeys
RLProcSet == 1..RLProcs
RLTagSet == 1..RLTags

\* A ZSET member f"{now}:{id(key)}" with score now. The tag stands for what
\* tells two members of one clock tick apart: the sub-tick digits of
\* time.time() and the value of id(key). Two calls produce the same member
\* exactly when both agree.
RLMember(now, tag) == <<now, tag>>

RLScore(m) == m[1]

\* pipe.zremrangebyscore(key, 0, now - window_s): both ends inclusive.
zremrangebyscore(zs, lo, hi) == {m \in zs : ~(lo <= RLScore(m) /\ RLScore(m) <= hi)}

\* pipe.zadd(key, {member: now}): an existing member keeps its single entry.
zadd(zs, m) == zs \cup {m}

\* pipe.zcard(key)
zcard(zs) == Cardinality(zs)

\* Number of entries of bag b (a function from times to counts) with a time
\* in the half-open window (now - w, now].
RECURSIVE BagSum(_, _)
BagSum(b, ts) == IF ts = {} THEN 0 ELSE LET t == CHOOSE x \in ts : TRUE IN b[t] + BagSum(b, ts \ {t})

InWindow(b, now, w) == BagSum(b, {t \in RLTimeSet : now - w < t /\ t <= now})

\* The verdict of check_rate_limit: count > limit rejects.
RLAllowed(count, limit) == ~(count > limit)

\* check_rate_limit(key, limit, window_s) called by process p at time rlNow.
\* The four commands run as one MULTI/EXEC pipeline, hence one step.
check_rate_limit(p, k, tag) ==
    /\ rlProcLast[p] < rlNow
    /\ LET pruned == zremrangebyscore(rlZset[k], 0, rlNow - RLWindow)
           added == zadd(pruned, RLMember(rlNow, tag))
           count == zcard(added)
           ok == RLAllowed(count, RLLimit)
       IN /\ rlZset' = [rlZset EXCEPT ![k] = added]
          /\ rlExpireAt' = [rlExpireAt EXCEPT ![k] = rlNow + RLWindow + 1]
          /\ rlLast' = [rlLast EXCEPT ![k] =
                          [t |-> rlNow, allowed |-> ok,
                           seenBefore |-> InWindow(rlSeen[k], rlNow, RLWindow),
                           admittedBefore |-> InWindow(rlAdmitted[k], rlNow, RLWindow)]]
          /\ rlSeen' = [rlSeen EXCEPT ![k][rlNow] = @ + 1]
          /\ rlAdmitted' = [rlAdmitted EXCEPT ![k][rlNow] = IF ok THEN @ + 1 ELSE @]
    /\ rlProcLast' = [rlProcLast EXCEPT ![p] = rlNow]
    /\ rlNow' = rlNow
    /\ UNCHANGED nonRL

\* One second passes; a key whose EXPIRE deadline is reached is deleted.
RLTick ==
    /\ rlNow < RLMaxTime
    /\ rlNow' = rlNow + 1
    /\ rlZset' = [k \in RLKeySet |-> IF rlExpireAt[k] # -1 /\ rlExpireAt[k] <= rlNow + 1
                                       THEN {} ELSE rlZset[k]]
    /\ rlExpireAt' = [k \in RLKeySet |-> IF rlExpireAt[k] # -1 /\ rlExpireAt[k] <= rlNow + 1
                                           THEN -1 ELSE rlExpireAt[k]]
    /\ UNCHANGED <<rlProcLast, rlSeen, rlAdmitted, rlLast>>
    /\ UNCHANGED nonRL

NoDecision == [t |-> -1, allowed |-> TRUE, seenBefore |-> 0, admittedBefore |-> 0]

InitRL ==
    /\ rlNow = 0
    /\ rlZset = [k \in RLKeySet |-> {}]
    /\ rlExpireAt = [k \in RLKeySet |-> -1]
    /\ rlProcLast = [p \in RLProcSet |-> -1]
    /\ rlSeen = [k \in RLKeySet |-> [t \in RLTimeSet |-> 0]]
    /\ rlAdmitted = [k \in RLKeySet |-> [t \in RLTimeSet |-> 0]]
    /\ rlLast = [k \in RLKeySet |-> NoDecision]

NextRL ==
    \/ \E p \in RLProcSet, k \in RLKeySet, tag \in RLTagSet : check_rate_limit(p, k, tag)
    \/ RLTick


\* ====================================================================
\* Room State Manager: the PlaybackState hash (services/room_manager.py)
\* ====================================================================
\* The hash room:{id}:state of one room. A field is absent or holds the
\* string str(v) of the value v written: Str(v) stands for that string,
\* and ParseInt reads it back the way a reader of the hash has to.
PBFields == {"status", "current_song_id", "current_song_db_id", "position_ms",
             "updated_at", "speed", "stream_url"}

Absent == <<"absent">>

Str(v) == <<"str", v>>

ParseInt(s) == s[2]

ParseStr(s) == s[2]

\* Song ids are 1..PBSongs; NoSongId stands for the empty string that the
\* idle state holds as current_song_id.
NoSongId == 0

\* Two coroutines may run a mutation at the same time.
PBOpSet == {1, 2}
PBSongSet == 1..PBSongs
PBPosSet == 0..PBMaxPos

\* get_room_state: HGETALL, with the idle default for an empty hash. The
\* result maps each field to Absent or to its value.
get_room_state(h) ==
    IF \A f \in PBFields : h[f] = Absent
    THEN [f \in PBFields |->
             CASE f = "status" -> Str("idle")
               [] f = "current_song_id" -> Str(NoSongId)
               [] f = "position_ms" -> Str(0)
               [] f = "updated_at" -> Str(0)
               [] f = "speed" -> Str(1)
               [] OTHER -> Absent]
    ELSE h

\* The updates dict of each mutation, in the insertion order in which
\* update_playback_state writes it, one HSET per field.
play_updates(song, position_ms, now) ==
    << <<"status", "playing">>, <<"current_song_id", song>>, <<"position_ms", position_ms>>,
       <<"updated_at", now>>, <<"speed", 1>> >>

\* Mutant of pause_at_updates: the pause does not store the position.
pause_at_updates_NoPosition(position_ms, now) ==
    << <<"status", "paused">>, <<"updated_at", now>> >>

pause_at_updates(position_ms, now) ==
    << <<"status", "paused">>, <<"position_ms", position_ms>>, <<"updated_at", now>> >>

seek_updates(position_ms, now) ==
    << <<"position_ms", position_ms>>, <<"updated_at", now>> >>

set_idle_updates(now) ==
    << <<"status", "idle">>, <<"current_song_id", NoSongId>>, <<"current_song_db_id", 0>>,
       <<"position_ms", 0>>, <<"updated_at", now>> >>

\* The player endpoints publish the updates dict that the mutation returns
\* as the data of playback_update: the fields that the event carries.
playback_update_fields(updates) == {updates[j][1] : j \in 1..Len(updates)}

\* update_playback_state writes str(v) for every value v.
hset(h, f, v) == [h EXCEPT ![f] = Str(v)]

\* Effective position of a state snapshot at time t: position_ms plus the
\* time elapsed since updated_at while playing, position_ms otherwise.
EffectivePosition(st, t) ==
    LET pos == IF st["position_ms"] = Absent THEN 0 ELSE ParseInt(st["position_ms"])
        upd == IF st["updated_at"] = Absent THEN 0 ELSE ParseInt(st["updated_at"])
    IN IF st["status"] # Absent /\ ParseStr(st["status"]) = "playing"
       THEN pos + (t - upd)
       ELSE pos

PBIdleOp == [kind |-> "none", upd |-> <<>>, i |-> 0, song |-> 0, pos |-> 0, t0 |-> 0, solo |-> TRUE]

PBActive(o) == pbOp[o].kind # "none"

\* What pbLast remembers of a mutation that overlapped another one.
PBOverlapped == [kind |-> "overlapped", song |-> 0, pos |-> 0, t0 |-> 0, solo |-> FALSE]

\* A mutation starts: it reads the server time and builds its updates dict.
\* An operation that overlaps another one is marked as not having run alone.
PBStart(o, kind, song, pos) ==
    /\ ~PBActive(o)
    /\ \A q \in PBOpSet : q < o => PBActive(q)
    /\ LET alone == \A q \in PBOpSet : ~PBActive(q)
           upd == CASE kind = "play" -> play_updates(song, pos, pbNow)
                    [] kind = "pause_at" -> pause_at_updates(pos, pbNow)
                    [] kind = "seek" -> seek_updates(pos, pbNow)
                    [] kind = "set_idle" -> set_idle_updates(pbNow)
       IN pbOp' = [q \in PBOpSet |->
                     IF q = o
                     THEN [kind |-> kind, upd |-> upd, i |-> 1,
                           song |-> IF kind = "play" THEN song ELSE 0,
                           pos |-> IF kind = "set_idle" THEN 0 ELSE pos,
                           t0 |-> pbNow, solo |-> alone]
                     ELSE IF PBActive(q) THEN [pbOp[q] EXCEPT !.solo = FALSE] ELSE pbOp[q]]
    /\ UNCHANGED <<pbNow, pbHash, pbLast>>
    /\ UNCHANGED nonPB

play(o, song, pos) == PBStart(o, "play", song, pos)

pause_at(o, pos) == PBStart(o, "pause_at", 0, pos)

seek(o, pos) == PBStart(o, "seek", 0, pos)

set_idle(o) == PBStart(o, "set_idle", 0, 0)

\* update_playback_state: the next HSET of the loop; after the last one the
\* mutation returns its updates dict.
update_playback_state(o) ==
    /\ PBActive(o)
    /\ LET op == pbOp[o]
           kv == op.upd[op.i]
       IN /\ pbHash' = hset(pbHash, kv[1], kv[2])
          /\ IF op.i = Len(op.upd)
             THEN /\ pbOp' = [pbOp EXCEPT ![o] = PBIdleOp]
                  /\ pbLast' = IF op.solo
                                THEN [kind |-> op.kind, song |-> op.song, pos |-> op.pos,
                                      t0 |-> op.t0, solo |-> TRUE]
                                ELSE PBOverlapped
             ELSE /\ pbOp' = [pbOp EXCEPT ![o].i = op.i + 1]
                  /\ pbLast' = pbLast
    /\ pbNow' = pbNow
    /\ UNCHANGED nonPB

\* What pbLast remembers of a mutation that ended with a store error.
PBFailed(solo) == [kind |-> "failed", song |-> 0, pos |-> 0, t0 |-> 0, solo |-> solo]

\* update_playback_state: the next HSET raises (the store is unreachable or
\* times out). Nothing catches the error: the loop stops, the fields already
\* written stay, and the mutation ends with the exception.
update_playback_state_fails(o) ==
    /\ PBActive(o)
    /\ pbOp' = [pbOp EXCEPT ![o] = PBIdleOp]
    /\ pbLast' = PBFailed(pbOp[o].solo)
    /\ UNCHANGED <<pbNow, pbHash>>
    /\ UNCHANGED nonPB

PBTick ==
    /\ pbNow < PBMaxTime
    /\ pbNow' = pbNow + 1
    /\ UNCHANGED <<pbHash, pbOp, pbLast>>
    /\ UNCHANGED nonPB

InitPB ==
    /\ pbNow = 0
    /\ pbHash = [f \in PBFields |-> Absent]
    /\ pbOp = [o \in PBOpSet |-> PBIdleOp]
    /\ pbLast = [kind |-> "none", song |-> 0, pos |-> 0, t0 |-> 0, solo |-> TRUE]

NextPB ==
    \/ \E o \in PBOpSet, s \in PBSongSet, p \in PBPosSet : play(o, s, p)
    \/ \E o \in PBOpSet, p \in PBPosSet : pause_at(o, p)
    \/ \E o \in PBOpSet, p \in PBPosSet : seek(o, p)
    \/ \E o \in PBOpSet : set_idle(o)
    \/ \E o \in PBOpSet : update_playback_state(o)
    \/ PBTick

\* The mutations with a store whose calls may fail.
NextPBStore ==
    \/ \E o \in PBOpSet, s \in PBSongSet, p \in PBPosSet : play(o, s, p)
    \/ \E o \in PBOpSet, p \in PBPosSet : pause_at(o, p)
    \/ \E o \in PBOpSet, p \in PBPosSet : seek(o, p)
    \/ \E o \in PBOpSet : set_idle(o)
    \/ \E o \in PBOpSet : update_playback_state(o)
    \/ \E o \in PBOpSet : update_playback_state_fails(o)
    \/ PBTick

PBQuiet == \A o \in PBOpSet : ~PBActive(o)

\* ====================================================================
\* Room State Manager: AddVote (services/room_manager.py)
\* ====================================================================
\* Concurrent add_vote calls on the vote sets room:{id}:votes:{song_id}.
AVUserSet == 1..AVUsers
AVItemSet == 1..AVItems

\* Two coroutines may run add_vote at the same time.
AVCallSet == {1, 2}

\* redis.sadd(key, member)
sadd(set, member) == set \cup {member}

\* redis.scard(key)
scard(set) == Cardinality(set)

\* Mutant of scard as add_vote uses it: the reply counts the calls made.
add_vote_reply_CountsCalls(item) == Len(avLog[item])

\* What add_vote returns: the cardinality read by its second command.
add_vote_reply(item) == scard(avVotes[item])

AVIdle == [pc |-> "idle", user |-> 0, item |-> 0, count |-> -1, at |-> 0]

RECURSIVE AVTotalCalls(_)
AVTotalCalls(items) ==
    IF items = {} THEN 0
    ELSE LET i == CHOOSE x \in items : TRUE
         IN Len(avLog[i]) + AVTotalCalls(items \ {i})

\* add_vote, first command: SADD of the voter. avLog records the voters in
\* the order in which their SADD ran.
add_vote_sadd(c, u, i) ==
    /\ avCall[c].pc \in {"idle", "done"}
    /\ AVTotalCalls(AVItemSet) < AVMaxCalls
    /\ avVotes' = [avVotes EXCEPT ![i] = sadd(@, u)]
    /\ avLog' = [avLog EXCEPT ![i] = Append(@, u)]
    /\ avCall' = [avCall EXCEPT ![c] = [pc |-> "scard", user |-> u, item |-> i, count |-> -1, at |-> 0]]
    /\ UNCHANGED nonAV

\* add_vote, second command: SCARD, whose result the call returns.
add_vote_scard(c) ==
    /\ avCall[c].pc = "scard"
    /\ avCall' = [avCall EXCEPT ![c].pc = "done",
                                ![c].count = add_vote_reply(avCall[c].item),
                                ![c].at = Len(avLog[avCall[c].item])]
    /\ UNCHANGED <<avVotes, avLog>>
    /\ UNCHANGED nonAV

InitAV ==
    /\ avVotes = [i \in AVItemSet |-> {}]
    /\ avLog = [i \in AVItemSet |-> <<>>]
    /\ avCall = [c \in AVCallSet |-> AVIdle]

NextAV ==
    \/ \E c \in AVCallSet, u \in AVUserSet, i \in AVItemSet : add_vote_sadd(c, u, i)
    \/ \E c \in AVCallSet : add_vote_scard(c)

\* Number of distinct values among the first n entries of a sequence.
RECURSIVE DistinctCount(_, _)
DistinctCount(log, n) ==
    IF n = 0 THEN 0
    ELSE DistinctCount(log, n - 1) + (IF \E j \in 1..(n - 1) : log[j] = log[n] THEN 0 ELSE 1)

\* ====================================================================
\* Queue endpoints of one room (api/v1/endpoints/queue.py)
\* ====================================================================
\* Every await of a handler is one step, so requests interleave exactly where
\* the event loop (or another server process) can switch between them. The
\* Song table holds the queue, the room hash the playback state, one vote set
\* per song id the skip votes, and each request records what it published.
\* A Song row is followed on its status and position.
\* The room hash is followed on the fields QFields; the writes of the other
\* fields (position_ms, updated_at, speed) change nothing that is followed.
QFields == {"status", "current_song_id", "current_song_db_id", "stream_url"}

\* The HSETs of an updates dict that write followed fields, in their order.
QWrites(upd) == SelectSeq(upd, LAMBDA kv : kv[1] \in QFields)

QSongSet == 1..QMaxSongs
QUserSet == 1..QUsers

\* Two requests on the room may be in flight at the same time.
QReqSet == {1, 2}

\* room.host_id: the user who created the room.
QHost == 1

\* vote_skip: threshold = 0.5, as the rational ThresholdNum / ThresholdDen.
ThresholdNum == 1
ThresholdDen == 2

\* A song added by request payload: every added song names its own media id.
YtId(song) == song

\* The stream URL that a successful resolution of a media id returns.
StreamUrl(yt) == yt

SongIds == 1..Len(qSongs)

Queued == {s \in SongIds : qSongs[s].status = "queued"}

Playing == {s \in SongIds : qSongs[s].status = "playing"}

\* select(func.max(Song.position)); None for an empty table is read as 0.
MaxPosition ==
    IF SongIds = {} THEN 0
    ELSE CHOOSE p \in {qSongs[s].position : s \in SongIds} :
             \A s \in SongIds : qSongs[s].position <= p

\* Rows a "status == QUEUED order by position limit 1" query may return:
\* the statement does not order rows of equal position.
NextQueued == {s \in Queued : \A t \in Queued : qSongs[s].position <= qSongs[t].position}

\* The queued rows ordered by position; rows of equal position are listed
\* by id.
RECURSIVE QueuedList(_)
QueuedList(S) ==
    IF S = {} THEN <<>>
    ELSE LET m == CHOOSE s \in S : \A t \in S :
                      \/ qSongs[s].position < qSongs[t].position
                      \/ qSongs[s].position = qSongs[t].position /\ s <= t
         IN <<m>> \o QueuedList(S \ {m})

\* get_current_song_db_id: int(val) if val else None; set_idle stores "0".
\* None and 0 are both read as "no current record" by the handlers.
get_current_song_db_id(h) ==
    IF h["current_song_db_id"] = Absent THEN 0
    ELSE ParseInt(h["current_song_db_id"])

\* get_stream_url: HGET of the field, None when absent.
get_stream_url(h) == IF h["stream_url"] = Absent THEN 0 ELSE ParseInt(h["stream_url"])

\* add_to_queue's test on the state it read: status idle or missing.
IsIdle(st) == st["status"] = Absent \/ ParseStr(st["status"]) = "idle"

\* Mutant of VoteThresholdMet: the ratio must exceed the threshold.
VoteThresholdMet_Strict(vote_count, participant_count) ==
    participant_count > 0 /\ vote_count * ThresholdDen > ThresholdNum * participant_count

\* vote_skip's threshold check.
VoteThresholdMet(vote_count, participant_count) ==
    participant_count > 0 /\ vote_count * ThresholdDen >= ThresholdNum * participant_count

\* Published events, in one shape.
NoEvent == [type |-> "none", status |-> "", song |-> 0, url |-> 0, queue |-> <<>>,
            np |-> 0, vc |-> 0, pcnt |-> 0, skipped |-> FALSE]

PlaybackUpdate(status, song, url) ==
    [NoEvent EXCEPT !.type = "playback_update", !.status = status, !.song = song, !.url = url]

QueueUpdate(queue, np, url) ==
    [NoEvent EXCEPT !.type = "queue_update", !.queue = queue, !.np = np, !.url = url]

VoteUpdate(song, vc, pcnt, skipped) ==
    [NoEvent EXCEPT !.type = "vote_update", !.song = song, !.vc = vc, !.pcnt = pcnt,
                    !.skipped = skipped]

\* A request: its handler (kind), where the handler stands (pc), where
\* transition_to_next returns to (ret), its local variables, the item its
\* client reported as ended (intent), whether add_to_queue read the room as
\* idle (saw), the events it has published (pubs), and what its transition
\* has written so far (wrote): the status of the next row ("song"), the
\* playback state ("playback").
QNoReq == [kind |-> "none", pc |-> "idle", ret |-> "", user |-> 0, cur |-> 0, st |-> "",
           next |-> 0, i |-> 0, maxpos |-> 0, newid |-> 0, vc |-> -1, pcnt |-> -1, url |-> 0,
           q |-> <<>>, np |-> 0, intent |-> 0, saw |-> "", skipped |-> FALSE, pubs |-> <<>>,
           wrote |-> {}]

QInFlight(r) == qReq[r].pc # "idle"

\* A handler may start in a slot when the slot is free and every lower slot
\* is taken. qStarted counts the handlers started; a run has at most
\* QMaxRequests of them.
QFree(r) ==
    /\ qStarted < QMaxRequests
    /\ ~QInFlight(r)
    /\ \A o \in QReqSet : o < r => QInFlight(o)

\* Status a handler gives the current item.
FinishStatus(kind) ==
    CASE kind = "song_ended" -> "played"
      [] kind = "host_skip" -> "skipped"
      [] kind = "vote_skip" -> "skipped"

\* join_room: the user is added to the participant set. Participants are
\* interchangeable, so new ones join in index order.
join_room(u) ==
    /\ u \in qUsers \/ \A v \in QUserSet : v < u => v \in qUsers
    /\ qUsers' = sadd(qUsers, u)
    /\ UNCHANGED <<qSongs, qHash, qVotes, qReq, qStarted>>
    /\ UNCHANGED nonQ

\* ---- add_to_queue ---------------------------------------------------
\* The handler starts: select(func.max(Song.position)).
add_to_queue(r) ==
    /\ QFree(r)
    /\ Len(qSongs) + Cardinality({o \in QReqSet : qReq[o].pc = "A_insert"}) < QMaxSongs
    /\ qReq' = [qReq EXCEPT ![r] = [QNoReq EXCEPT !.kind = "add_to_queue", !.pc = "A_insert",
                                                  !.maxpos = MaxPosition]]
    /\ qStarted' = qStarted + 1
    /\ UNCHANGED <<qSongs, qHash, qVotes, qUsers>>
    /\ UNCHANGED nonQ

\* session.add(song); commit: the row gets the next id and position max + 1.
add_to_queue_insert(r) ==
    /\ qReq[r].pc = "A_insert"
    /\ qSongs' = Append(qSongs, [status |-> "queued", position |-> qReq[r].maxpos + 1, by |-> 0])
    /\ qReq' = [qReq EXCEPT ![r].pc = "A_state", ![r].newid = Len(qSongs) + 1, ![r].maxpos = 0]
    /\ UNCHANGED <<qHash, qVotes, qUsers, qStarted>>
    /\ UNCHANGED nonQ

\* get_room_state, then the branch on idle. (For an empty hash
\* get_room_state returns the default state, whose status is idle.)
add_to_queue_state(r) ==
    /\ qReq[r].pc = "A_state"
    /\ LET idle == IsIdle(qHash)
       IN qReq' = [qReq EXCEPT ![r].pc = IF idle THEN "T_select" ELSE "B_queued",
                               ![r].ret = "end",
                               ![r].saw = IF idle THEN "idle" ELSE "busy"]
    /\ UNCHANGED <<qSongs, qHash, qVotes, qUsers, qStarted>>
    /\ UNCHANGED nonQ

\* ---- song_ended, host_skip, vote_skip -------------------------------
\* A client reports the end of the item it is playing: the request is on
\* its way to the server. intent is the item that the room state names as
\* current, if that item is playing.
song_ended(r) ==
    /\ QFree(r)
    /\ LET cur == get_current_song_db_id(qHash)
       IN qReq' = [qReq EXCEPT ![r] =
                     [QNoReq EXCEPT !.kind = "song_ended", !.pc = "C_getid",
                                    !.intent = IF cur \in Playing THEN cur ELSE 0]]
    /\ qStarted' = qStarted + 1
    /\ UNCHANGED <<qSongs, qHash, qVotes, qUsers>>
    /\ UNCHANGED nonQ

\* host_skip starts: get_current_song_db_id and "if current_song_id".
host_skip(r) ==
    /\ QFree(r)
    /\ LET cur == get_current_song_db_id(qHash)
       IN qReq' = [qReq EXCEPT ![r] =
                     [QNoReq EXCEPT !.kind = "host_skip", !.cur = cur, !.ret = "end",
                                    !.pc = IF cur # 0 THEN "C_load" ELSE "T_select"]]
    /\ qStarted' = qStarted + 1
    /\ UNCHANGED <<qSongs, qHash, qVotes, qUsers>>
    /\ UNCHANGED nonQ

\* song_ended reaches the server: get_current_song_db_id and
\* "if current_song_id".
song_ended_getid(r) ==
    /\ qReq[r].pc = "C_getid"
    /\ LET cur == get_current_song_db_id(qHash)
       IN qReq' = [qReq EXCEPT ![r].cur = cur, ![r].ret = "end",
                               ![r].pc = IF cur # 0 THEN "C_load" ELSE "T_select"]
    /\ UNCHANGED <<qSongs, qHash, qVotes, qUsers, qStarted>>
    /\ UNCHANGED nonQ

\* vote_skip starts: get_current_song_db_id; without a current record the
\* request ends at once with status 400.
vote_skip(r, u) ==
    /\ QFree(r)
    /\ LET cur == get_current_song_db_id(qHash)
       IN qReq' = [qReq EXCEPT ![r] =
                     IF cur # 0
                     THEN [QNoReq EXCEPT !.kind = "vote_skip", !.user = u, !.cur = cur,
                                         !.ret = "V_publish", !.pc = "V_sadd"]
                     ELSE QNoReq]
    /\ qStarted' = qStarted + 1
    /\ UNCHANGED <<qSongs, qHash, qVotes, qUsers>>
    /\ UNCHANGED nonQ

\* add_vote, first command: SADD of the voter to the item's vote set.
vote_skip_sadd(r) ==
    /\ qReq[r].pc = "V_sadd"
    /\ qVotes' = [qVotes EXCEPT ![qReq[r].cur] = sadd(@, qReq[r].user)]
    /\ qReq' = [qReq EXCEPT ![r].pc = "V_scard"]
    /\ UNCHANGED <<qSongs, qHash, qUsers, qStarted>>
    /\ UNCHANGED nonQ

\* add_vote, second command: SCARD gives vote_count.
vote_skip_scard(r) ==
    /\ qReq[r].pc = "V_scard"
    /\ qReq' = [qReq EXCEPT ![r].pc = "V_count", ![r].vc = scard(qVotes[qReq[r].cur])]
    /\ UNCHANGED <<qSongs, qHash, qVotes, qUsers, qStarted>>
    /\ UNCHANGED nonQ

\* get_participant_count, then the threshold check. (The Vote row written in
\* between touches nothing that is modelled.)
vote_skip_threshold(r) ==
    /\ qReq[r].pc = "V_count"
    /\ LET pcnt == scard(qUsers)
       IN qReq' = [qReq EXCEPT ![r].pcnt = pcnt,
                               ![r].pc = IF VoteThresholdMet(qReq[r].vc, pcnt)
                                         THEN "C_load" ELSE "V_publish"]
    /\ UNCHANGED <<qSongs, qHash, qVotes, qUsers, qStarted>>
    /\ UNCHANGED nonQ

\* session.get(Song, current_song_id) and the test of its status.
current_load(r) ==
    /\ qReq[r].pc = "C_load"
    /\ LET k == qReq[r].kind
           found == qReq[r].cur \in SongIds
           st == IF found THEN qSongs[qReq[r].cur].status ELSE "missing"
       IN qReq' = [qReq EXCEPT ![r].st = st,
                               ![r].pc = IF st = "playing" THEN "C_mark"
                                         ELSE IF k = "vote_skip" THEN "V_publish"
                                         ELSE "T_select"]
    /\ UNCHANGED <<qSongs, qHash, qVotes, qUsers, qStarted>>
    /\ UNCHANGED nonQ

\* current_song.status = PLAYED or SKIPPED; commit: an UPDATE of the row by
\* its id, whatever its status is by now.
current_mark(r) ==
    /\ qReq[r].pc = "C_mark"
    /\ qSongs' = [qSongs EXCEPT ![qReq[r].cur].status = FinishStatus(qReq[r].kind)]
    /\ qReq' = [qReq EXCEPT ![r].pc = "C_clear"]
    /\ UNCHANGED <<qHash, qVotes, qUsers, qStarted>>
    /\ UNCHANGED nonQ

\* clear_votes: DEL of the item's vote set.
clear_votes(r) ==
    /\ qReq[r].pc = "C_clear"
    /\ qVotes' = [qVotes EXCEPT ![qReq[r].cur] = {}]
    /\ qReq' = [qReq EXCEPT ![r].pc = "T_select"]
    /\ UNCHANGED <<qSongs, qHash, qUsers, qStarted>>
    /\ UNCHANGED nonQ

\* vote_skip publishes VoteUpdate(cur, vote_count, participant_count,
\* skipped) and returns.
vote_skip_publish(r) ==
    /\ qReq[r].pc = "V_publish"
    /\ qReq' = [qReq EXCEPT ![r] = QNoReq]
    /\ UNCHANGED <<qSongs, qHash, qVotes, qUsers, qStarted>>
    /\ UNCHANGED nonQ

\* ---- transition_to_next ---------------------------------------------
\* 1. Find the next queued song.
transition_select(r) ==
    /\ qReq[r].pc = "T_select"
    /\ \/ /\ Queued = {}
          /\ qReq' = [qReq EXCEPT ![r].pc = "I_hset", ![r].i = 1]
       \/ \E s \in NextQueued :
              qReq' = [qReq EXCEPT ![r].pc = "T_mark", ![r].next = s]
    /\ UNCHANGED <<qSongs, qHash, qVotes, qUsers, qStarted>>
    /\ UNCHANGED nonQ

\* Mutant of transition_mark: the event is published right after the row
\* is marked, before the playback state is written.
transition_mark_ThenPublish(r) ==
    /\ qReq[r].pc = "T_mark"
    /\ qSongs' = [qSongs EXCEPT ![qReq[r].next].status = "playing",
                                ![qReq[r].next].by = IF qReq[r].kind = "song_ended"
                                                     THEN qReq[r].intent ELSE @]
    /\ qReq' = [qReq EXCEPT ![r].pc = "T_publish", ![r].wrote = @ \cup {"song"}]
    /\ UNCHANGED <<qHash, qVotes, qUsers, qStarted>>
    /\ UNCHANGED nonQ

\* 2a. next_song.status = PLAYING; commit: an UPDATE of the row by its id.
\* The row remembers (by) for which item the song_ended signal was sent
\* whose transition started it.
transition_mark(r) ==
    /\ qReq[r].pc = "T_mark"
    /\ qSongs' = [qSongs EXCEPT ![qReq[r].next].status = "playing",
                                ![qReq[r].next].by = IF qReq[r].kind = "song_ended"
                                                     THEN qReq[r].intent ELSE @]
    /\ qReq' = [qReq EXCEPT ![r].pc = "P_hset", ![r].i = 1, ![r].wrote = @ \cup {"song"}]
    /\ UNCHANGED <<qHash, qVotes, qUsers, qStarted>>
    /\ UNCHANGED nonQ

\* 2b. room_manager.play(slug, next_song.yt_id, 0): the next HSET of
\* update_playback_state.
transition_play(r) ==
    /\ qReq[r].pc = "P_hset"
    /\ LET upd == QWrites(play_updates(YtId(qReq[r].next), 0, 0))
           kv == upd[qReq[r].i]
       IN /\ qHash' = hset(qHash, kv[1], kv[2])
          /\ qReq' = IF qReq[r].i = Len(upd)
                     THEN [qReq EXCEPT ![r].pc = "T_dbid", ![r].i = 0,
                                       ![r].wrote = @ \cup {"playback"}]
                     ELSE [qReq EXCEPT ![r].i = @ + 1]
    /\ UNCHANGED <<qSongs, qVotes, qUsers, qStarted>>
    /\ UNCHANGED nonQ

\* set_current_song_db_id(slug, next_song.id)
transition_dbid(r) ==
    /\ qReq[r].pc = "T_dbid"
    /\ qHash' = hset(qHash, "current_song_db_id", qReq[r].next)
    /\ qReq' = [qReq EXCEPT ![r].pc = "T_extract"]
    /\ UNCHANGED <<qSongs, qVotes, qUsers, qStarted>>
    /\ UNCHANGED nonQ

\* 2c. get_or_extract_stream returns a URL.
transition_extract_ok(r) ==
    /\ qReq[r].pc = "T_extract"
    /\ qReq' = [qReq EXCEPT ![r].pc = "T_seturl", ![r].url = StreamUrl(YtId(qReq[r].next))]
    /\ UNCHANGED <<qSongs, qHash, qVotes, qUsers, qStarted>>
    /\ UNCHANGED nonQ

\* 2c. get_or_extract_stream raises ExtractionError: caught, stream_url None.
transition_extract_error(r) ==
    /\ qReq[r].pc = "T_extract"
    /\ qReq' = [qReq EXCEPT ![r].pc = "T_publish", ![r].url = 0]
    /\ UNCHANGED <<qSongs, qHash, qVotes, qUsers, qStarted>>
    /\ UNCHANGED nonQ

\* 2c. get_or_extract_stream raises asyncio.TimeoutError (its wait for an
\* extraction in flight timed out): not an ExtractionError, so the handler
\* ends here with the exception.
transition_extract_timeout(r) ==
    /\ qReq[r].pc = "T_extract"
    /\ qReq' = [qReq EXCEPT ![r] = QNoReq]
    /\ UNCHANGED <<qSongs, qHash, qVotes, qUsers, qStarted>>
    /\ UNCHANGED nonQ

\* set_stream_url(slug, stream_url)
transition_seturl(r) ==
    /\ qReq[r].pc = "T_seturl"
    /\ qHash' = hset(qHash, "stream_url", qReq[r].url)
    /\ qReq' = [qReq EXCEPT ![r].pc = "T_publish"]
    /\ UNCHANGED <<qSongs, qVotes, qUsers, qStarted>>
    /\ UNCHANGED nonQ

\* 2d. publish_event(slug, "playback_update", updates)
transition_publish(r) ==
    /\ qReq[r].pc = "T_publish"
    /\ qReq' = [qReq EXCEPT ![r].pc = "B_queued", ![r].url = 0,
                            ![r].pubs = Append(@, PlaybackUpdate("playing", YtId(qReq[r].next),
                                                                 qReq[r].url))]
    /\ UNCHANGED <<qSongs, qHash, qVotes, qUsers, qStarted>>
    /\ UNCHANGED nonQ

\* 3. room_manager.set_idle(slug): the next HSET of update_playback_state.
transition_set_idle(r) ==
    /\ qReq[r].pc = "I_hset"
    /\ LET upd == QWrites(set_idle_updates(0))
           kv == upd[qReq[r].i]
       IN /\ qHash' = hset(qHash, kv[1], kv[2])
          /\ qReq' = IF qReq[r].i = Len(upd)
                     THEN [qReq EXCEPT ![r].pc = "I_publish", ![r].i = 0,
                                       ![r].wrote = @ \cup {"playback"}]
                     ELSE [qReq EXCEPT ![r].i = @ + 1]
    /\ UNCHANGED <<qSongs, qVotes, qUsers, qStarted>>
    /\ UNCHANGED nonQ

\* publish_event(slug, "playback_update", updates) of the idle branch.
transition_publish_idle(r) ==
    /\ qReq[r].pc = "I_publish"
    /\ qReq' = [qReq EXCEPT ![r].pc = "B_queued",
                            ![r].pubs = Append(@, PlaybackUpdate("idle", 0, 0))]
    /\ UNCHANGED <<qSongs, qHash, qVotes, qUsers, qStarted>>
    /\ UNCHANGED nonQ

\* ---- _broadcast_queue -----------------------------------------------
\* select the queued rows, ordered by position.
broadcast_queue_queued(r) ==
    /\ qReq[r].pc = "B_queued"
    /\ qReq' = [qReq EXCEPT ![r].pc = "B_playing", ![r].q = QueuedList(Queued)]
    /\ UNCHANGED <<qSongs, qHash, qVotes, qUsers, qStarted>>
    /\ UNCHANGED nonQ

\* select a playing row, limit 1: any of them when there are several.
broadcast_queue_playing(r) ==
    /\ qReq[r].pc = "B_playing"
    /\ \/ /\ Playing = {}
          /\ qReq' = [qReq EXCEPT ![r].pc = "B_publish", ![r].np = 0, ![r].url = 0]
       \/ \E s \in Playing :
              qReq' = [qReq EXCEPT ![r].pc = "B_url", ![r].np = s]
    /\ UNCHANGED <<qSongs, qHash, qVotes, qUsers, qStarted>>
    /\ UNCHANGED nonQ

\* get_stream_url for now_playing.
broadcast_queue_url(r) ==
    /\ qReq[r].pc = "B_url"
    /\ qReq' = [qReq EXCEPT ![r].pc = "B_publish", ![r].url = get_stream_url(qHash)]
    /\ UNCHANGED <<qSongs, qHash, qVotes, qUsers, qStarted>>
    /\ UNCHANGED nonQ

\* The queue_update that _broadcast_queue is about to publish.
BroadcastEvent(r) == QueueUpdate(qReq[r].q, qReq[r].np, qReq[r].url)

\* publish_event(slug, "queue_update", payload); then the caller goes on:
\* vote_skip sets skipped and publishes its vote_update, the others return.
broadcast_queue_publish(r) ==
    /\ qReq[r].pc = "B_publish"
    /\ qReq' = [qReq EXCEPT ![r] =
                  IF qReq[r].ret = "V_publish"
                  THEN [qReq[r] EXCEPT !.pc = "V_publish", !.skipped = TRUE,
                                       !.pubs = Append(@, BroadcastEvent(r)),
                                       !.q = <<>>, !.np = 0, !.url = 0, !.next = 0,
                                       !.wrote = {}]
                  ELSE QNoReq]
    /\ UNCHANGED <<qSongs, qHash, qVotes, qUsers, qStarted>>
    /\ UNCHANGED nonQ

\* A room after its creation, and the room after two add_to_queue requests
\* served one after the other: song 1 playing with its stream URL, song 2
\* queued.
QRoomEmpty ==
    /\ qSongs = <<>>
    /\ qHash = [f \in QFields |-> Absent]

QRoomPlaying ==
    /\ qSongs = << [status |-> "playing", position |-> 1, by |-> 0],
                   [status |-> "queued", position |-> 2, by |-> 0] >>
    /\ qHash = [f \in QFields |->
                  CASE f = "status" -> Str("playing")
                    [] f = "current_song_id" -> Str(YtId(1))
                    [] f = "current_song_db_id" -> Str(1)
                    [] f = "stream_url" -> Str(StreamUrl(YtId(1)))]

InitQ ==
    /\ QRoomEmpty \/ QRoomPlaying
    /\ qVotes = [s \in QSongSet |-> {}]
    /\ qUsers = {}
    /\ qReq = [r \in QReqSet |-> QNoReq]
    /\ qStarted = 0

NextQ ==
    \/ \E u \in QUserSet : join_room(u)
    \/ \E r \in QReqSet : add_to_queue(r)
    \/ \E r \in QReqSet : add_to_queue_insert(r)
    \/ \E r \in QReqSet : add_to_queue_state(r)
    \/ \E r \in QReqSet : song_ended(r)
    \/ \E r \in QReqSet : host_skip(r)
    \/ \E r \in QReqSet : song_ended_getid(r)
    \/ \E r \in QReqSet, u \in QUserSet : vote_skip(r, u)
    \/ \E r \in QReqSet : vote_skip_sadd(r)
    \/ \E r \in QReqSet : vote_skip_scard(r)
    \/ \E r \in QReqSet : vote_skip_threshold(r)
    \/ \E r \in QReqSet : current_load(r)
    \/ \E r \in QReqSet : current_mark(r)
    \/ \E r \in QReqSet : clear_votes(r)
    \/ \E r \in QReqSet : vote_skip_publish(r)
    \/ \E r \in QReqSet : transition_select(r)
    \/ \E r \in QReqSet : transition_mark(r)
    \/ \E r \in QReqSet : transition_play(r)
    \/ \E r \in QReqSet : transition_dbid(r)
    \/ \E r \in QReqSet : transition_extract_ok(r)
    \/ \E r \in QReqSet : transition_extract_error(r)
    \/ \E r \in QReqSet : transition_extract_timeout(r)
    \/ \E r \in QReqSet : transition_seturl(r)
    \/ \E r \in QReqSet : transition_publish(r)
    \/ \E r \in QReqSet : transition_set_idle(r)
    \/ \E r \in QReqSet : transition_publish_idle(r)
    \/ \E r \in QReqSet : broadcast_queue_queued(r)
    \/ \E r \in QReqSet : broadcast_queue_playing(r)
    \/ \E r \in QReqSet : broadcast_queue_url(r)
    \/ \E r \in QReqSet : broadcast_queue_publish(r)

\* ====================================================================
\* Participant set and websocket sessions
\* (api/v1/endpoints/ws.py, api/v1/endpoints/rooms.py join_room)
\* ====================================================================
\* Each user of the room may join (join_room, above) and may open one
\* websocket session at a time. prWs[u] is where the websocket_endpoint
\* coroutine of user u stands and the participant count it announced.
PRClosed == [pc |-> "closed", count |-> 0]

\* ParticipantCount: get_participant_count is SCARD of the participant set.
get_participant_count(users) == scard(users)

\* websocket_endpoint starts: manager.connect accepts the connection.
websocket_endpoint(u) ==
    /\ prWs[u].pc = "closed"
    /\ prWs' = [prWs EXCEPT ![u].pc = "connected"]
    /\ UNCHANGED nonPR

\* room_manager.get_participant_count(slug) for the join event.
websocket_participant_count(u) ==
    /\ prWs[u].pc = "connected"
    /\ prWs' = [prWs EXCEPT ![u] = [pc |-> "counted", count |-> get_participant_count(qUsers)]]
    /\ UNCHANGED nonPR

\* publish_event(slug, "participant_joined", ...); then the receive loop.
websocket_participant_joined(u) ==
    /\ prWs[u].pc = "counted"
    /\ prWs' = [prWs EXCEPT ![u].pc = "receiving"]
    /\ UNCHANGED nonPR

\* receive_text raises WebSocketDisconnect: manager.disconnect(websocket,
\* slug) and nothing else (remove_participant is commented out).
websocket_disconnected(u) ==
    /\ prWs[u].pc = "receiving"
    /\ prWs' = [prWs EXCEPT ![u] = PRClosed]
    /\ UNCHANGED nonPR

InitPR == prWs = [u \in QUserSet |-> PRClosed]

NextPR ==
    \/ \E u \in QUserSet : join_room(u)
    \/ \E u \in QUserSet : websocket_endpoint(u)
    \/ \E u \in QUserSet : websocket_participant_count(u)
    \/ \E u \in QUserSet : websocket_participant_joined(u)
    \/ \E u \in QUserSet : websocket_disconnected(u)

\* ====================================================================
\* WebSocket connection manager of one server process
\* (services/ws_manager.py, api/v1/endpoints/ws.py)
\* ====================================================================
\* One process with its ConnectionManager, the Redis side of its shared
\* PubSub connection, and the clients' sockets. Every await is one step; a
\* command sent to Redis takes effect there before its await returns.
WSSockSet == 1..WSSockets
WSRoomSet == 1..WSRooms

WSNewSock == [pc |-> "new", room |-> 0, alive |-> TRUE]

\* The shared listener: where the task that _listener_task names stands
\* (state; "none" while _listener_task is None), the room, the sockets left
\* and the dead sockets of its broadcast, the number of tasks that read the
\* PubSub connection (readers), and how often the listener has crashed.
WSNoListener == [state |-> "none", room |-> 0, todo |-> {}, dead |-> {}, readers |-> 0,
                 crashes |-> 0]

\* The listener is in its "async for" and waits for the next message.
WSListen(l) == [l EXCEPT !.state = "listening", !.room = 0, !.todo = {}, !.dead = {}]

\* self._listener_task is None or self._listener_task.done()
WSTaskDone(l) == l.state \in {"none", "done"}

\* ConnectionManager.disconnect, on the connection lists: the socket is
\* removed from the room's list, and the list is deleted when it is empty.
disconnect_conns(conns, w, r) == [conns EXCEPT ![r] = @ \ {w}]

\* ConnectionManager.disconnect creates an unsubscribe task exactly when the
\* room had a list and the removal left it empty.
disconnect_creates_task(conns, w, r) == conns[r] # {} /\ conns[r] \ {w} = {}

\* A client opens a socket for a room: the endpoint calls connect, which
\* awaits websocket.accept(). Sockets are taken in index order.
ws_connect(w, r) ==
    /\ wsSock[w].pc = "new"
    /\ \A v \in WSSockSet : v < w => wsSock[v].pc # "new"
    /\ wsSock' = [wsSock EXCEPT ![w] = [pc |-> "accept", room |-> r, alive |-> TRUE]]
    /\ UNCHANGED <<wsConns, wsSubscribed, wsRedisSub, wsPubsub, wsListener, wsInbox, wsUnsub, wsPublished>>
    /\ UNCHANGED nonWS

\* accept() returns: the socket is appended to the room's list; connect is
\* over when the room is in _subscribed_rooms, otherwise it goes on to
\* subscribe.
ws_connect_accepted(w) ==
    /\ wsSock[w].pc = "accept"
    /\ LET r == wsSock[w].room
       IN /\ wsConns' = [wsConns EXCEPT ![r] = @ \cup {w}]
          /\ wsSock' = [wsSock EXCEPT ![w].pc = IF r \in wsSubscribed THEN "announce" ELSE "ensure"]
    /\ UNCHANGED <<wsSubscribed, wsRedisSub, wsPubsub, wsListener, wsInbox, wsUnsub, wsPublished>>
    /\ UNCHANGED nonWS

\* accept() fails for a client that has gone away: connect raises before the
\* socket is registered, and the endpoint ends.
ws_accept_fails(w) ==
    /\ wsSock[w].pc = "accept"
    /\ ~wsSock[w].alive
    /\ wsSock' = [wsSock EXCEPT ![w].pc = "closed"]
    /\ UNCHANGED <<wsConns, wsSubscribed, wsRedisSub, wsPubsub, wsListener, wsInbox, wsUnsub, wsPublished>>
    /\ UNCHANGED nonWS

\* _ensure_pubsub: the shared PubSub connection and its listener task are
\* created if missing.
ws_ensure_pubsub(w) ==
    /\ wsSock[w].pc = "ensure"
    /\ wsPubsub' = TRUE
    /\ wsListener' = IF WSTaskDone(wsListener)
                     THEN [WSListen(wsListener) EXCEPT !.readers = @ + 1]
                     ELSE wsListener
    /\ wsSock' = [wsSock EXCEPT ![w].pc = "subscribe"]
    /\ UNCHANGED <<wsConns, wsSubscribed, wsRedisSub, wsInbox, wsUnsub, wsPublished>>
    /\ UNCHANGED nonWS

\* _pubsub.subscribe(channel): the command reaches Redis.
ws_subscribe(w) ==
    /\ wsSock[w].pc = "subscribe"
    /\ wsRedisSub' = wsRedisSub \cup {wsSock[w].room}
    /\ wsSock' = [wsSock EXCEPT ![w].pc = "subscribed"]
    /\ UNCHANGED <<wsConns, wsSubscribed, wsPubsub, wsListener, wsInbox, wsUnsub, wsPublished>>
    /\ UNCHANGED nonWS

\* The await of subscribe returns: _subscribed_rooms.add(room_slug).
ws_subscribe_returns(w) ==
    /\ wsSock[w].pc = "subscribed"
    /\ wsSubscribed' = wsSubscribed \cup {wsSock[w].room}
    /\ wsSock' = [wsSock EXCEPT ![w].pc = "announce"]
    /\ UNCHANGED <<wsConns, wsRedisSub, wsPubsub, wsListener, wsInbox, wsUnsub, wsPublished>>
    /\ UNCHANGED nonWS

\* Redis delivers a message published on a room's channel to this process
\* if its PubSub connection is subscribed to the channel.
Deliver(r) == IF r \in wsRedisSub THEN Append(wsInbox, r) ELSE wsInbox

\* The endpoint publishes participant_joined and enters its receive loop.
ws_announce(w) ==
    /\ wsSock[w].pc = "announce"
    /\ wsInbox' = Deliver(wsSock[w].room)
    /\ wsSock' = [wsSock EXCEPT ![w].pc = "open"]
    /\ UNCHANGED <<wsConns, wsSubscribed, wsRedisSub, wsPubsub, wsListener, wsUnsub, wsPublished>>
    /\ UNCHANGED nonWS

\* Another process publishes an event for a room.
ws_publish_event(r) ==
    /\ wsPublished < WSMaxPublish
    /\ wsPublished' = wsPublished + 1
    /\ wsInbox' = Deliver(r)
    /\ UNCHANGED <<wsSock, wsConns, wsSubscribed, wsRedisSub, wsPubsub, wsListener, wsUnsub>>
    /\ UNCHANGED nonWS

\* The client goes away: sends to the socket fail from now on, and the
\* endpoint's receive raises WebSocketDisconnect.
ws_client_gone(w) ==
    /\ wsSock[w].pc \notin {"new", "closed"}
    /\ wsSock[w].alive
    /\ wsSock' = [wsSock EXCEPT ![w].alive = FALSE]
    /\ UNCHANGED <<wsConns, wsSubscribed, wsRedisSub, wsPubsub, wsListener, wsInbox, wsUnsub, wsPublished>>
    /\ UNCHANGED nonWS

\* The endpoint catches WebSocketDisconnect: manager.disconnect.
ws_disconnect(w) ==
    /\ wsSock[w].pc = "open"
    /\ ~wsSock[w].alive
    /\ LET r == wsSock[w].room
       IN /\ wsConns' = disconnect_conns(wsConns, w, r)
          /\ wsUnsub' = IF disconnect_creates_task(wsConns, w, r)
                        THEN [wsUnsub EXCEPT ![r].new = @ + 1] ELSE wsUnsub
    /\ wsSock' = [wsSock EXCEPT ![w].pc = "closed"]
    /\ UNCHANGED <<wsSubscribed, wsRedisSub, wsPubsub, wsListener, wsInbox, wsPublished>>
    /\ UNCHANGED nonWS

\* (relay notes that a task not yet started was created by the pruning of
\* broadcast_local.)
\* _unsubscribe_room starts: when the room is in _subscribed_rooms (and the
\* PubSub connection exists) the unsubscribe command reaches Redis, otherwise
\* the task ends.
ws_unsubscribe_room(r) ==
    /\ wsUnsub[r].new > 0
    /\ IF r \in wsSubscribed /\ wsPubsub
       THEN /\ wsRedisSub' = wsRedisSub \ {r}
            /\ wsUnsub' = [wsUnsub EXCEPT ![r].new = @ - 1, ![r].mid = @ + 1,
                                          ![r].relay = @ /\ wsUnsub[r].new > 1]
       ELSE /\ wsRedisSub' = wsRedisSub
            /\ wsUnsub' = [wsUnsub EXCEPT ![r].new = @ - 1,
                                          ![r].relay = @ /\ wsUnsub[r].new > 1]
    /\ UNCHANGED <<wsSock, wsConns, wsSubscribed, wsPubsub, wsListener, wsInbox, wsPublished>>
    /\ UNCHANGED nonWS

\* The await of unsubscribe returns: _subscribed_rooms.discard(room_slug).
ws_unsubscribe_returns(r) ==
    /\ wsUnsub[r].mid > 0
    /\ wsSubscribed' = wsSubscribed \ {r}
    /\ wsUnsub' = [wsUnsub EXCEPT ![r].mid = @ - 1]
    /\ UNCHANGED <<wsSock, wsConns, wsRedisSub, wsPubsub, wsListener, wsInbox, wsPublished>>
    /\ UNCHANGED nonWS

\* Mutant of ws_listener_receive: the message is relayed to the connections
\* of every room.
ws_listener_receive_ToAll ==
    /\ wsListener.state = "listening"
    /\ wsInbox # <<>>
    /\ LET r == Head(wsInbox)
           all == UNION {wsConns[q] : q \in WSRoomSet}
       IN wsListener' = IF all = {} THEN WSListen(wsListener)
                        ELSE [wsListener EXCEPT !.state = "broadcast", !.room = r,
                                                !.todo = all, !.dead = {}]
    /\ wsInbox' = Tail(wsInbox)
    /\ UNCHANGED <<wsSock, wsConns, wsSubscribed, wsRedisSub, wsPubsub, wsUnsub, wsPublished>>
    /\ UNCHANGED nonWS

\* _shared_listener receives the next message and calls broadcast_local,
\* which returns at once for a room without connections and otherwise takes
\* a copy of the room's list.
ws_listener_receive ==
    /\ wsListener.state = "listening"
    /\ wsInbox # <<>>
    /\ LET r == Head(wsInbox)
       IN wsListener' = IF wsConns[r] = {} THEN WSListen(wsListener)
                        ELSE [wsListener EXCEPT !.state = "broadcast", !.room = r,
                                                !.todo = wsConns[r], !.dead = {}]
    /\ wsInbox' = Tail(wsInbox)
    /\ UNCHANGED <<wsSock, wsConns, wsSubscribed, wsRedisSub, wsPubsub, wsUnsub, wsPublished>>
    /\ UNCHANGED nonWS

\* broadcast_local: send_json to the next socket of the copy; a socket whose
\* send fails is noted as dead.
ws_broadcast_send(w) ==
    /\ wsListener.state = "broadcast"
    /\ w \in wsListener.todo
    /\ wsListener' = [wsListener EXCEPT !.todo = @ \ {w},
                                        !.dead = IF wsSock[w].alive THEN @ ELSE @ \cup {w}]
    /\ UNCHANGED <<wsSock, wsConns, wsSubscribed, wsRedisSub, wsPubsub, wsInbox, wsUnsub, wsPublished>>
    /\ UNCHANGED nonWS

\* broadcast_local: after the last send, disconnect is called for every
\* dead socket; the listener goes back to listening.
ws_broadcast_clean ==
    /\ wsListener.state = "broadcast"
    /\ wsListener.todo = {}
    /\ LET r == wsListener.room
           left == wsConns[r] \ wsListener.dead
       IN /\ wsConns' = [wsConns EXCEPT ![r] = left]
          /\ wsUnsub' = IF wsConns[r] # {} /\ left = {}
                        THEN [wsUnsub EXCEPT ![r].new = @ + 1, ![r].relay = TRUE] ELSE wsUnsub
    /\ wsListener' = WSListen(wsListener)
    /\ UNCHANGED <<wsSock, wsSubscribed, wsRedisSub, wsPubsub, wsInbox, wsPublished>>
    /\ UNCHANGED nonWS

\* _pubsub.listen() raises an exception: _shared_listener leaves its loop
\* and sleeps in "except Exception". The listener crashes at most
\* WSMaxCrashes times.
ws_listener_crashes ==
    /\ wsListener.state = "listening"
    /\ wsListener.crashes < WSMaxCrashes
    /\ wsListener' = [wsListener EXCEPT !.state = "restarting", !.readers = @ - 1,
                                        !.crashes = @ + 1]
    /\ UNCHANGED <<wsSock, wsConns, wsSubscribed, wsRedisSub, wsPubsub, wsInbox, wsUnsub, wsPublished>>
    /\ UNCHANGED nonWS

\* Mutant of ws_listener_restart: the crashed task ends without a new one.
ws_listener_restart_GivesUp ==
    /\ wsListener.state = "restarting"
    /\ wsListener' = [wsListener EXCEPT !.state = "done"]
    /\ UNCHANGED <<wsSock, wsConns, wsSubscribed, wsRedisSub, wsPubsub, wsInbox, wsUnsub, wsPublished>>
    /\ UNCHANGED nonWS

\* sleep(1) is over: _listener_task = create_task(_shared_listener()), and
\* the crashed task ends.
ws_listener_restart ==
    /\ wsListener.state = "restarting"
    /\ wsListener' = [WSListen(wsListener) EXCEPT !.readers = @ + 1]
    /\ UNCHANGED <<wsSock, wsConns, wsSubscribed, wsRedisSub, wsPubsub, wsInbox, wsUnsub, wsPublished>>
    /\ UNCHANGED nonWS

InitWS ==
    /\ wsSock = [w \in WSSockSet |-> WSNewSock]
    /\ wsConns = [r \in WSRoomSet |-> {}]
    /\ wsSubscribed = {}
    /\ wsRedisSub = {}
    /\ wsPubsub = FALSE
    /\ wsListener = WSNoListener
    /\ wsInbox = <<>>
    /\ wsUnsub = [r \in WSRoomSet |-> [new |-> 0, mid |-> 0, relay |-> FALSE]]
    /\ wsPublished = 0

NextWS ==
    \/ \E w \in WSSockSet, r \in WSRoomSet : ws_connect(w, r)
    \/ \E w \in WSSockSet : ws_connect_accepted(w)
    \/ \E w \in WSSockSet : ws_accept_fails(w)
    \/ \E w \in WSSockSet : ws_ensure_pubsub(w)
    \/ \E w \in WSSockSet : ws_subscribe(w)
    \/ \E w \in WSSockSet : ws_subscribe_returns(w)
    \/ \E w \in WSSockSet : ws_announce(w)
    \/ \E r \in WSRoomSet : ws_publish_event(r)
    \/ \E w \in WSSockSet : ws_client_gone(w)
    \/ \E w \in WSSockSet : ws_disconnect(w)
    \/ \E r \in WSRoomSet : ws_unsubscribe_room(r)
    \/ \E r \in WSRoomSet : ws_unsubscribe_returns(r)
    \/ ws_listener_receive
    \/ \E w \in WSSockSet : ws_broadcast_send(w)
    \/ ws_broadcast_clean
    \/ ws_listener_crashes
    \/ ws_listener_restart

\* No coroutine of the process has work left for the room: no connect in
\* progress, no unsubscribe task, no broadcast to the room.
WSQuiet(r) ==
    /\ \A w \in WSSockSet : wsSock[w].room = r => wsSock[w].pc \in {"open", "closed"}
    /\ wsUnsub[r].new = 0 /\ wsUnsub[r].mid = 0
    /\ ~(wsListener.state = "broadcast" /\ wsListener.room = r)

\* ====================================================================
\* Stream resolution service (services/yt_service.py)
\* ====================================================================
\* Server processes share the Redis cache and extraction locks; each process
\* has its own semaphore and in-flight map. Time advances in ticks of
\* TickSeconds seconds, the greatest common divisor of the timeouts; the
\* state holds the time each lock has left and the time each call has spent
\* in its wait.
MAX_CONCURRENT == 2
SEARCH_TIMEOUT == 15
EXTRACT_TIMEOUT == 20
LOCK_TTL == 30
LOCK_POLL_MAX == 50

\* LOCK_POLL_INTERVAL = 0.5, as the rational
\* LOCK_POLL_INTERVAL_NUM / LOCK_POLL_INTERVAL_DEN.
LOCK_POLL_INTERVAL_NUM == 1
LOCK_POLL_INTERVAL_DEN == 2

RECURSIVE Gcd(_, _)
Gcd(a, b) == IF b = 0 THEN a ELSE Gcd(b, a % b)

\* wait_for(event.wait(), timeout=EXTRACT_TIMEOUT + 5)
InflightWaitSeconds == EXTRACT_TIMEOUT + 5

\* for _ in range(LOCK_POLL_MAX): sleep(LOCK_POLL_INTERVAL)
LockPollSeconds == (LOCK_POLL_MAX * LOCK_POLL_INTERVAL_NUM) \div LOCK_POLL_INTERVAL_DEN

TickSeconds ==
    Gcd(Gcd(LOCK_TTL, EXTRACT_TIMEOUT), Gcd(SEARCH_TIMEOUT, Gcd(InflightWaitSeconds, LockPollSeconds)))

LockTicks == LOCK_TTL \div TickSeconds
ExtractTicks == EXTRACT_TIMEOUT \div TickSeconds
SearchTicks == SEARCH_TIMEOUT \div TickSeconds
InflightWaitTicks == InflightWaitSeconds \div TickSeconds
LockPollTicks == LockPollSeconds \div TickSeconds

YTCallSet == 1..YTCalls
YTProcSet == 1..YTProcs
YTVidSet == 1..YTVids

\* The URL that a successful extraction of a media id prints.
ExtractedUrl(vid) == vid

\* A call: its function (kind), its process, its media id, where it stands
\* (pc), the ticks it has spent in its wait (elapsed), the cache value its last
\* GET returned (cached), the call whose event it waits for, 0 once the event
\* is set (waitOn), what
\* it returns or raises (result), and whether it has started a subprocess
\* (spawned).
YTNoCall == [kind |-> "none", proc |-> 0, vid |-> 0, pc |-> "new", elapsed |-> 0, cached |-> 0,
             waitOn |-> 0, result |-> "", spawned |-> FALSE]

YTActive(c) == ytCall[c].pc \notin {"new", "done"}

\* Calls are numbered in the order in which they start, and processes in
\* the order in which they receive their first call.
YTNext(c) == ytCall[c].pc = "new" /\ \A d \in YTCallSet : d < c => ytCall[d].pc # "new"

YTProcNext(p) == \A q \in YTProcSet : q < p => ytUsed[q]

\* The subprocesses that a process is running hold its semaphore.
Running(p) == {c \in YTCallSet : ytCall[c].proc = p /\ ytCall[c].pc = "running"}

\* Mutant of SemaphoreFree: the semaphore never makes a call wait.
SemaphoreFree_NoLimit(p) == TRUE

SemaphoreFree(p) == Cardinality(Running(p)) < MAX_CONCURRENT

\* The extraction subprocesses running for a media id, in any process.
Extracting(vid) ==
    {c \in YTCallSet : ytCall[c].kind = "resolve" /\ ytCall[c].vid = vid /\ ytCall[c].pc = "running"}

\* The lock key exists while it has time to live.
LockHeld(vid) == ytLock[vid] > 0

\* The call returns or raises; of a call that is over, the record keeps the
\* function and what it returned or raised.
YTReturn(rec, result) ==
    [YTNoCall EXCEPT !.kind = rec.kind, !.pc = "done", !.result = result]

Timeout(kind) == IF kind = "search" THEN SearchTicks ELSE ExtractTicks

\* search: _run_ytdlp with SEARCH_TIMEOUT; it waits for the semaphore when
\* MAX_CONCURRENT subprocesses of the process are running.
search(c, p) ==
    /\ YTNext(c)
    /\ YTProcNext(p)
    /\ ytCall' = [ytCall EXCEPT ![c] =
                    [YTNoCall EXCEPT !.kind = "search", !.proc = p,
                                     !.pc = IF SemaphoreFree(p) THEN "running" ELSE "semwait",
                                     !.spawned = SemaphoreFree(p)]]
    /\ UNCHANGED <<ytCache, ytLock, ytInflight>>
    /\ ytUsed' = [ytUsed EXCEPT ![p] = TRUE]
    /\ UNCHANGED nonYT

\* get_or_extract_stream starts. Step 1: redis.get(cache_key).
get_or_extract_stream(c, p, vid) ==
    /\ YTNext(c)
    /\ YTProcNext(p)
    /\ ytCall' = [ytCall EXCEPT ![c] =
                    [YTNoCall EXCEPT !.kind = "resolve", !.proc = p, !.vid = vid,
                                     !.pc = "cache", !.cached = ytCache[vid]]]
    /\ UNCHANGED <<ytCache, ytLock, ytInflight>>
    /\ ytUsed' = [ytUsed EXCEPT ![p] = TRUE]
    /\ UNCHANGED nonYT

\* refresh_stream starts: redis.delete(cache_key). At most YTRefreshes calls
\* are refreshes.
refresh_stream(c, p, vid) ==
    /\ YTNext(c)
    /\ YTProcNext(p)
    /\ Cardinality({d \in YTCallSet : ytCall[d].kind = "refresh"}) < YTRefreshes
    /\ ytCache' = [ytCache EXCEPT ![vid] = 0]
    /\ ytCall' = [ytCall EXCEPT ![c] =
                    [YTNoCall EXCEPT !.kind = "refresh", !.proc = p, !.vid = vid, !.pc = "deleted"]]
    /\ ytUsed' = [ytUsed EXCEPT ![p] = TRUE]
    /\ UNCHANGED <<ytLock, ytInflight>>
    /\ UNCHANGED nonYT

\* The DEL has returned: refresh_stream calls extract_stream_url, with no
\* lock and no in-flight entry; _run_ytdlp starts the subprocess or waits
\* for the semaphore.
refresh_extract(c) ==
    /\ ytCall[c].pc = "deleted"
    /\ LET p == ytCall[c].proc
       IN ytCall' = [ytCall EXCEPT ![c].pc = IF SemaphoreFree(p) THEN "running" ELSE "semwait",
                                   ![c].spawned = SemaphoreFree(p)]
    /\ UNCHANGED <<ytCache, ytLock, ytInflight>>
    /\ UNCHANGED ytUsed
    /\ UNCHANGED nonYT

\* The subprocess of a refresh ends: with a URL, which is written to the
\* cache (with REFRESH_TTL) and returned, or with an error.
refresh_returns(c) ==
    /\ ytCall[c].kind = "refresh"
    /\ ytCall[c].pc = "running"
    /\ \/ /\ ytCache' = [ytCache EXCEPT ![ytCall[c].vid] = ExtractedUrl(ytCall[c].vid)]
          /\ ytCall' = [ytCall EXCEPT ![c] = YTReturn(@, "url")]
       \/ /\ ytCache' = ytCache
          /\ ytCall' = [ytCall EXCEPT ![c] = YTReturn(@, "ExtractionError")]
    /\ UNCHANGED <<ytLock, ytInflight>>
    /\ UNCHANGED ytUsed
    /\ UNCHANGED nonYT

\* Mutant of cache_hit: the call does not return.
cache_hit_Hangs(c) ==
    /\ ytCall[c].pc = "cache"
    /\ ytCall[c].cached # 0
    /\ UNCHANGED <<ytCall, ytCache, ytLock, ytInflight>>
    /\ UNCHANGED ytUsed
    /\ UNCHANGED nonYT

\* The GET has returned a URL: cache hit.
cache_hit(c) ==
    /\ ytCall[c].pc = "cache"
    /\ ytCall[c].cached # 0
    /\ ytCall' = [ytCall EXCEPT ![c] = YTReturn(@, "url")]
    /\ UNCHANGED <<ytCache, ytLock, ytInflight>>
    /\ UNCHANGED ytUsed
    /\ UNCHANGED nonYT

\* Cache miss. Step 2: the media id is in the in-flight map of the process:
\* the call waits for the event of the extracting call.
inflight_wait(c) ==
    /\ ytCall[c].pc = "cache"
    /\ ytCall[c].cached = 0
    /\ ytInflight[ytCall[c].proc][ytCall[c].vid] # 0
    /\ ytCall' = [ytCall EXCEPT ![c].pc = "wait",
                                ![c].waitOn = ytInflight[ytCall[c].proc][ytCall[c].vid]]
    /\ UNCHANGED <<ytCache, ytLock, ytInflight>>
    /\ UNCHANGED ytUsed
    /\ UNCHANGED nonYT

\* Cache miss, nothing in flight. Step 3: SET lock_key NX EX LOCK_TTL; a
\* call that does not get the lock starts to poll the cache.
acquire_lock(c) ==
    /\ ytCall[c].pc = "cache"
    /\ ytCall[c].cached = 0
    /\ ytInflight[ytCall[c].proc][ytCall[c].vid] = 0
    /\ LET vid == ytCall[c].vid
       IN IF LockHeld(vid)
          THEN /\ ytCall' = [ytCall EXCEPT ![c].pc = "poll"]
               /\ ytLock' = ytLock
          ELSE /\ ytCall' = [ytCall EXCEPT ![c].pc = "locked"]
               /\ ytLock' = [ytLock EXCEPT ![vid] = LockTicks]
    /\ UNCHANGED <<ytCache, ytInflight>>
    /\ UNCHANGED ytUsed
    /\ UNCHANGED nonYT

\* Step 4: the SET NX has returned true. The call registers its event in
\* the in-flight map and enters _run_ytdlp: it starts the subprocess, or
\* waits for the semaphore.
register_inflight(c) ==
    /\ ytCall[c].pc = "locked"
    /\ LET p == ytCall[c].proc
       IN /\ ytInflight' = [ytInflight EXCEPT ![p][ytCall[c].vid] = c]
          /\ ytCall' = [ytCall EXCEPT ![c].pc = IF SemaphoreFree(p) THEN "running" ELSE "semwait",
                                      ![c].spawned = SemaphoreFree(p)]
    /\ UNCHANGED <<ytCache, ytLock>>
    /\ UNCHANGED ytUsed
    /\ UNCHANGED nonYT

\* async with self._semaphore: a waiting call gets the semaphore once a
\* subprocess of its process has ended, and starts its own subprocess.
semaphore_acquired(c) ==
    /\ ytCall[c].pc = "semwait"
    /\ SemaphoreFree(ytCall[c].proc)
    /\ ytCall' = [ytCall EXCEPT ![c].pc = "running", ![c].spawned = TRUE]
    /\ UNCHANGED <<ytCache, ytLock, ytInflight>>
    /\ UNCHANGED ytUsed
    /\ UNCHANGED nonYT

\* The search subprocess ends within SEARCH_TIMEOUT, with exit code 0 or not.
search_returns(c) ==
    /\ ytCall[c].kind = "search"
    /\ ytCall[c].pc = "running"
    /\ \E res \in {"results", "ExtractionError"} :
          ytCall' = [ytCall EXCEPT ![c] = YTReturn(@, res)]
    /\ UNCHANGED <<ytCache, ytLock, ytInflight>>
    /\ UNCHANGED ytUsed
    /\ UNCHANGED nonYT

\* The extraction subprocess prints a URL: redis.set(cache_key, url).
extract_ok(c) ==
    /\ ytCall[c].kind = "resolve"
    /\ ytCall[c].pc = "running"
    /\ ytCache' = [ytCache EXCEPT ![ytCall[c].vid] = ExtractedUrl(ytCall[c].vid)]
    /\ ytCall' = [ytCall EXCEPT ![c].pc = "release", ![c].elapsed = 0, ![c].result = "url"]
    /\ UNCHANGED <<ytLock, ytInflight>>
    /\ UNCHANGED ytUsed
    /\ UNCHANGED nonYT

\* The extraction subprocess exits with an error, or prints no URL.
extract_error(c) ==
    /\ ytCall[c].kind = "resolve"
    /\ ytCall[c].pc = "running"
    /\ ytCall' = [ytCall EXCEPT ![c].pc = "release", ![c].elapsed = 0, ![c].result = "ExtractionError"]
    /\ UNCHANGED <<ytCache, ytLock, ytInflight>>
    /\ UNCHANGED ytUsed
    /\ UNCHANGED nonYT

\* wait_for(proc.communicate(), timeout) expires: the subprocess is killed
\* and the call raises ExtractionError.
ytdlp_timeout(c) ==
    /\ ytCall[c].pc = "running"
    /\ ytCall[c].elapsed >= Timeout(ytCall[c].kind)
    /\ ytCall' = [ytCall EXCEPT ![c] =
                    IF ytCall[c].kind = "resolve"
                    THEN [@ EXCEPT !.pc = "release", !.elapsed = 0, !.result = "ExtractionError"]
                    ELSE YTReturn(@, "ExtractionError")]
    /\ UNCHANGED <<ytCache, ytLock, ytInflight>>
    /\ UNCHANGED ytUsed
    /\ UNCHANGED nonYT

\* finally: redis.delete(lock_key), whoever holds the lock now.
release_lock(c) ==
    /\ ytCall[c].pc = "release"
    /\ ytLock' = [ytLock EXCEPT ![ytCall[c].vid] = 0]
    /\ ytCall' = [ytCall EXCEPT ![c].pc = "notify"]
    /\ UNCHANGED <<ytCache, ytInflight>>
    /\ UNCHANGED ytUsed
    /\ UNCHANGED nonYT

\* Mutant of notify_waiters: the entry stays in the in-flight map.
notify_waiters_KeepsEntry(c) ==
    /\ ytCall[c].pc = "notify"
    /\ ytCall' = [d \in YTCallSet |->
                    IF d = c THEN YTReturn(ytCall[c], ytCall[c].result)
                    ELSE IF ytCall[d].pc = "wait" /\ ytCall[d].waitOn = c
                         THEN [ytCall[d] EXCEPT !.waitOn = 0]
                         ELSE ytCall[d]]
    /\ UNCHANGED <<ytCache, ytLock, ytInflight>>
    /\ UNCHANGED ytUsed
    /\ UNCHANGED nonYT

\* finally: event.set(), self._inflight.pop(video_id, None); the call
\* returns the URL or raises.
notify_waiters(c) ==
    /\ ytCall[c].pc = "notify"
    /\ ytInflight' = [ytInflight EXCEPT ![ytCall[c].proc][ytCall[c].vid] = 0]
    /\ ytCall' = [d \in YTCallSet |->
                    IF d = c THEN YTReturn(ytCall[c], ytCall[c].result)
                    ELSE IF ytCall[d].pc = "wait" /\ ytCall[d].waitOn = c
                         THEN [ytCall[d] EXCEPT !.waitOn = 0]
                         ELSE ytCall[d]]
    /\ UNCHANGED <<ytCache, ytLock>>
    /\ UNCHANGED ytUsed
    /\ UNCHANGED nonYT

\* The event is set: the waiting call reads the cache again and returns the
\* URL, or raises ExtractionError when nothing is cached.
inflight_wake(c) ==
    /\ ytCall[c].pc = "wait"
    /\ ytCall[c].waitOn = 0
    /\ ytCall' = [ytCall EXCEPT ![c] =
                    YTReturn(@, IF ytCache[ytCall[c].vid] # 0 THEN "url" ELSE "ExtractionError")]
    /\ UNCHANGED <<ytCache, ytLock, ytInflight>>
    /\ UNCHANGED ytUsed
    /\ UNCHANGED nonYT

\* wait_for(event.wait(), EXTRACT_TIMEOUT + 5) expires: asyncio.TimeoutError.
inflight_timeout(c) ==
    /\ ytCall[c].pc = "wait"
    /\ ytCall[c].elapsed >= InflightWaitTicks
    /\ ytCall' = [ytCall EXCEPT ![c] = YTReturn(@, "TimeoutError")]
    /\ UNCHANGED <<ytCache, ytLock, ytInflight>>
    /\ UNCHANGED ytUsed
    /\ UNCHANGED nonYT

\* A poll of the cache finds the URL.
poll_hit(c) ==
    /\ ytCall[c].pc = "poll"
    /\ ytCache[ytCall[c].vid] # 0
    /\ ytCall' = [ytCall EXCEPT ![c] = YTReturn(@, "url")]
    /\ UNCHANGED <<ytCache, ytLock, ytInflight>>
    /\ UNCHANGED ytUsed
    /\ UNCHANGED nonYT

\* Mutant of poll_timeout: after the last poll the call extracts by itself.
poll_timeout_Extracts(c) ==
    /\ ytCall[c].pc = "poll"
    /\ ytCache[ytCall[c].vid] = 0
    /\ ytCall[c].elapsed >= LockPollTicks
    /\ ytCall' = [ytCall EXCEPT ![c].pc = "locked", ![c].elapsed = 0]
    /\ UNCHANGED <<ytCache, ytLock, ytInflight>>
    /\ UNCHANGED ytUsed
    /\ UNCHANGED nonYT

\* LOCK_POLL_MAX polls have found nothing: ExtractionError.
poll_timeout(c) ==
    /\ ytCall[c].pc = "poll"
    /\ ytCache[ytCall[c].vid] = 0
    /\ ytCall[c].elapsed >= LockPollTicks
    /\ ytCall' = [ytCall EXCEPT ![c] = YTReturn(@, "ExtractionError")]
    /\ UNCHANGED <<ytCache, ytLock, ytInflight>>
    /\ UNCHANGED ytUsed
    /\ UNCHANGED nonYT

\* A call lets time pass only while it waits for a subprocess, for the
\* semaphore, for an event or for the next poll; a Redis round trip and a
\* poll interval are shorter than a tick.
YTCanWait(c) ==
    LET rec == ytCall[c]
    IN CASE rec.pc \in {"new", "done"} -> TRUE
         [] rec.pc = "running" -> rec.elapsed < Timeout(rec.kind)
         [] rec.pc = "semwait" -> ~SemaphoreFree(rec.proc)
         [] rec.pc = "wait" -> rec.waitOn # 0 /\ rec.elapsed < InflightWaitTicks
         [] rec.pc = "poll" -> ytCache[rec.vid] = 0 /\ rec.elapsed < LockPollTicks
         [] OTHER -> FALSE

YTTimed(c) == ytCall[c].pc \in {"running", "wait", "poll"}

\* Mutant of YTTick: the lock key has no expiry.
YTTick_LockNeverExpires ==
    /\ \A c \in YTCallSet : YTCanWait(c)
    /\ (\E c \in YTCallSet : YTActive(c)) \/ (\E v \in YTVidSet : LockHeld(v))
    /\ ytLock' = ytLock
    /\ ytCall' = [c \in YTCallSet |->
                    IF YTTimed(c) THEN [ytCall[c] EXCEPT !.elapsed = @ + 1] ELSE ytCall[c]]
    /\ UNCHANGED <<ytCache, ytInflight>>
    /\ UNCHANGED ytUsed
    /\ UNCHANGED nonYT

\* Time passes while a call is in progress or a lock key has time to live.
YTTick ==
    /\ \A c \in YTCallSet : YTCanWait(c)
    /\ (\E c \in YTCallSet : YTActive(c)) \/ (\E v \in YTVidSet : LockHeld(v))
    /\ ytLock' = [v \in YTVidSet |-> IF ytLock[v] > 0 THEN ytLock[v] - 1 ELSE 0]
    /\ ytCall' = [c \in YTCallSet |->
                    IF YTTimed(c) THEN [ytCall[c] EXCEPT !.elapsed = @ + 1] ELSE ytCall[c]]
    /\ UNCHANGED <<ytCache, ytInflight>>
    /\ UNCHANGED ytUsed
    /\ UNCHANGED nonYT

\* The calls that have acquired the lock of a media id and not yet
\* released it (lines 169 to 195).
LockHolders(vid) ==
    {c \in YTCallSet : /\ ytCall[c].kind = "resolve" /\ ytCall[c].vid = vid
                       /\ ytCall[c].pc \in {"locked", "semwait", "running", "release"}}

\* A server process that holds a lock dies and is started again: its calls
\* are lost with their subprocesses, its in-flight map is empty again, and
\* the lock key stays in Redis. At most one process crashes.
process_crashes(p) ==
    /\ \E v \in YTVidSet : \E c \in LockHolders(v) : ytCall[c].proc = p /\ LockHeld(v)
    /\ \A c \in YTCallSet : ytCall[c].result # "crashed"
    /\ ytCall' = [c \in YTCallSet |->
                    IF ytCall[c].proc = p /\ YTActive(c)
                    THEN YTReturn(ytCall[c], "crashed") ELSE ytCall[c]]
    /\ ytInflight' = [ytInflight EXCEPT ![p] = [v \in YTVidSet |-> 0]]
    /\ UNCHANGED <<ytCache, ytLock>>
    /\ UNCHANGED ytUsed
    /\ UNCHANGED nonYT

InitYT ==
    /\ ytCache = [v \in YTVidSet |-> 0]
    /\ ytLock = [v \in YTVidSet |-> 0]
    /\ ytInflight = [p \in YTProcSet |-> [v \in YTVidSet |-> 0]]
    /\ ytCall = [c \in YTCallSet |-> YTNoCall]
    /\ ytUsed = [p \in YTProcSet |-> FALSE]

NextYT ==
    \/ \E c \in YTCallSet, p \in YTProcSet : search(c, p)
    \/ \E c \in YTCallSet, p \in YTProcSet, v \in YTVidSet : get_or_extract_stream(c, p, v)
    \/ \E c \in YTCallSet, p \in YTProcSet, v \in YTVidSet : refresh_stream(c, p, v)
    \/ \E c \in YTCallSet : refresh_extract(c)
    \/ \E c \in YTCallSet : refresh_returns(c)
    \/ \E c \in YTCallSet : cache_hit(c)
    \/ \E c \in YTCallSet : inflight_wait(c)
    \/ \E c \in YTCallSet : acquire_lock(c)
    \/ \E c \in YTCallSet : register_inflight(c)
    \/ \E c \in YTCallSet : semaphore_acquired(c)
    \/ \E c \in YTCallSet : search_returns(c)
    \/ \E c \in YTCallSet : extract_ok(c)
    \/ \E c \in YTCallSet : extract_error(c)
    \/ \E c \in YTCallSet : ytdlp_timeout(c)
    \/ \E c \in YTCallSet : release_lock(c)
    \/ \E c \in YTCallSet : notify_waiters(c)
    \/ \E c \in YTCallSet : inflight_wake(c)
    \/ \E c \in YTCallSet : inflight_timeout(c)
    \/ \E c \in YTCallSet : poll_hit(c)
    \/ \E c \in YTCallSet : poll_timeout(c)
    \/ YTTick

\* The searches and the resolution calls, on each of the paths of
\* get_or_extract_stream; the searches, which fill the semaphore, are
\* calls of the first process.
NextYTLive ==
    \/ \E c \in YTCallSet : search(c, 1)
    \/ \E c \in YTCallSet, p \in YTProcSet, v \in YTVidSet : get_or_extract_stream(c, p, v)
    \/ \E c \in YTCallSet : cache_hit(c)
    \/ \E c \in YTCallSet : inflight_wait(c)
    \/ \E c \in YTCallSet : acquire_lock(c)
    \/ \E c \in YTCallSet : register_inflight(c)
    \/ \E c \in YTCallSet : semaphore_acquired(c)
    \/ \E c \in YTCallSet : search_returns(c)
    \/ \E c \in YTCallSet : extract_ok(c)
    \/ \E c \in YTCallSet : extract_error(c)
    \/ \E c \in YTCallSet : ytdlp_timeout(c)
    \/ \E c \in YTCallSet : release_lock(c)
    \/ \E c \in YTCallSet : notify_waiters(c)
    \/ \E c \in YTCallSet : inflight_wake(c)
    \/ \E c \in YTCallSet : inflight_timeout(c)
    \/ \E c \in YTCallSet : poll_hit(c)
    \/ \E c \in YTCallSet : poll_timeout(c)
    \/ YTTick

\* The resolution calls of processes of which one may crash. Without searches
\* and refreshes the semaphore is never full, and the wait for an in-flight
\* event ends before its timeout.
NextYTCrash ==
    \/ \E c \in YTCallSet, p \in YTProcSet, v \in YTVidSet : get_or_extract_stream(c, p, v)
    \/ \E c \in YTCallSet : cache_hit(c)
    \/ \E c \in YTCallSet : inflight_wait(c)
    \/ \E c \in YTCallSet : acquire_lock(c)
    \/ \E c \in YTCallSet : register_inflight(c)
    \/ \E c \in YTCallSet : extract_ok(c)
    \/ \E c \in YTCallSet : extract_error(c)
    \/ \E c \in YTCallSet : ytdlp_timeout(c)
    \/ \E c \in YTCallSet : release_lock(c)
    \/ \E c \in YTCallSet : notify_waiters(c)
    \/ \E c \in YTCallSet : inflight_wake(c)
    \/ \E c \in YTCallSet : poll_hit(c)
    \/ \E c \in YTCallSet : poll_timeout(c)
    \/ \E p \in YTProcSet : process_crashes(p)
    \/ YTTick

\* ====================================================================
\* Flask-SocketIO application: one room, its songs and repeat policy
\* (app.py)
\* ====================================================================
\* The handlers are synchronous functions over the Room and Song tables and
\* the active_rooms dictionary; a handler is one step. lgRoom is the Room
\* row, lgSongs the Song rows in the order of their ids (a deleted row keeps
\* its place), lgUsers the sids in the room in the order they joined (the
\* users dictionary of active_rooms), lgHost its host_sid (0: none),
\* lgVotes its vote_skip set, and lgLast tells what the last handler did:
\* the branch that play_next_song_in_room took ("none" when it was not
\* called) and the id it emitted in now_playing.
LGUserSet == 1..LGUsers
LGTimeSet == 0..LGMaxTime

\* Song.query.filter_by(room_id=room_id): the rows that exist.
LGExisting(songs) == {s \in 1..Len(songs) : ~songs[s].deleted}

\* filter_by(room_id=room_id, is_queued=True)
LGQueued(songs) == {s \in LGExisting(songs) : songs[s].is_queued}

\* ...order_by(Song.order.asc()).first(): a queued row of the smallest
\* order; the query does not order rows of equal order.
LGFirstQueued(songs) ==
    {s \in LGQueued(songs) : \A t \in LGQueued(songs) : songs[s].order <= songs[t].order}

\* handle_add_to_queue: order of the new row, last queued order + 1 or 0.
LGNextOrder(songs) ==
    IF LGQueued(songs) = {} THEN 0
    ELSE 1 + CHOOSE o \in {songs[s].order : s \in LGQueued(songs)} :
                 \A s \in LGQueued(songs) : songs[s].order <= o

\* Mutant of LGRequeueAll: nothing is queued again.
LGRequeueAll_Nothing(songs) == songs

\* repeat 'all': s.is_queued = True for every row of the room.
LGRequeueAll(songs) ==
    [s \in 1..Len(songs) |-> IF songs[s].deleted THEN songs[s]
                             ELSE [songs[s] EXCEPT !.is_queued = TRUE]]

\* Mutant of LGRepeatsOne: the repeat mode is not looked at.
LGRepeatsOne_Never(room) == FALSE

\* if room.repeat_mode == 'one' and room.current_song_id
LGRepeatsOne(room) == room.repeat_mode = "one" /\ room.current_song_id # 0

\* play_next_song_in_room: the outcomes it may have, each with the Room row
\* and the Song rows it commits, the branch taken and the id of now_playing
\* (0: None).
play_next_song_in_room(room, songs) ==
    IF LGRepeatsOne(room)
    THEN {[room |-> [room EXCEPT !.playback_time = 0, !.is_playing = TRUE],
           songs |-> songs, branch |-> "repeat_one", now_playing |-> room.current_song_id]}
    ELSE LET requeue == LGFirstQueued(songs) = {} /\ room.repeat_mode = "all"
             pool == IF requeue THEN LGRequeueAll(songs) ELSE songs
         IN IF LGFirstQueued(pool) # {}
            THEN {[room |-> [room EXCEPT !.current_song_id = n, !.playback_time = 0,
                                         !.is_playing = TRUE],
                   songs |-> [pool EXCEPT ![n].is_queued = FALSE],
                   branch |-> IF requeue THEN "requeue_next" ELSE "next",
                   now_playing |-> n] : n \in LGFirstQueued(pool)}
            ELSE {[room |-> [room EXCEPT !.current_song_id = 0],
                   songs |-> pool, branch |-> "empty", now_playing |-> 0]}

\* A handler that calls play_next_song_in_room: the vote set is emptied
\* first.
LGTransition(handler) ==
    \E res \in play_next_song_in_room(lgRoom, lgSongs) :
        /\ lgRoom' = res.room
        /\ lgSongs' = res.songs
        /\ lgVotes' = {}
        /\ lgLast' = [handler |-> handler, branch |-> res.branch,
                      now_playing |-> res.now_playing]

LGNoTransition(handler) == lgLast' = [handler |-> handler, branch |-> "none", now_playing |-> 0]

\* handle_join_room of a sid that is in no room: the first one to join
\* becomes the host.
handle_join_room(sid) ==
    /\ \A j \in 1..Len(lgUsers) : lgUsers[j] # sid
    /\ lgUsers' = Append(lgUsers, sid)
    /\ lgHost' = IF lgUsers = <<>> THEN sid ELSE lgHost
    /\ LGNoTransition("join_room")
    /\ UNCHANGED <<lgRoom, lgSongs, lgVotes>>
    /\ UNCHANGED nonLG

\* handle_disconnect, leave_user_from_room: the sid leaves the users and
\* the vote set; the host role passes to the user who joined first, and the
\* entry of active_rooms is deleted with the last user.
handle_disconnect(sid) ==
    /\ \E j \in 1..Len(lgUsers) : lgUsers[j] = sid
    /\ LET rest == SelectSeq(lgUsers, LAMBDA u : u # sid)
       IN /\ lgUsers' = rest
          /\ lgVotes' = IF rest = <<>> THEN {} ELSE lgVotes \ {sid}
          /\ lgHost' = IF lgHost # sid THEN lgHost
                       ELSE IF rest # <<>> THEN rest[1] ELSE 0
    /\ LGNoTransition("disconnect")
    /\ UNCHANGED <<lgRoom, lgSongs>>
    /\ UNCHANGED nonLG

LGInRoom(sid) == \E j \in 1..Len(lgUsers) : lgUsers[j] = sid

\* handle_add_to_queue: the new row, then play_next_song_in_room when the
\* room has no current song.
handle_add_to_queue(sid) ==
    /\ LGInRoom(sid)
    /\ Len(lgSongs) < LGSongs
    /\ LET added == Append(lgSongs, [order |-> LGNextOrder(lgSongs), is_queued |-> TRUE,
                                     deleted |-> FALSE])
       IN IF lgRoom.current_song_id = 0
          THEN \E res \in play_next_song_in_room(lgRoom, added) :
                  /\ lgRoom' = res.room
                  /\ lgSongs' = res.songs
                  /\ lgVotes' = {}
                  /\ lgLast' = [handler |-> "add_to_queue", branch |-> res.branch,
                                now_playing |-> res.now_playing]
          ELSE /\ lgSongs' = added
               /\ LGNoTransition("add_to_queue")
               /\ UNCHANGED <<lgRoom, lgVotes>>
    /\ UNCHANGED <<lgUsers, lgHost>>
    /\ UNCHANGED nonLG

\* handle_remove_from_queue: a queued row is deleted.
handle_remove_from_queue(sid, s) ==
    /\ LGInRoom(sid)
    /\ s \in LGQueued(lgSongs)
    /\ lgSongs' = [lgSongs EXCEPT ![s].deleted = TRUE, ![s].is_queued = FALSE]
    /\ LGNoTransition("remove_from_queue")
    /\ UNCHANGED <<lgRoom, lgUsers, lgHost, lgVotes>>
    /\ UNCHANGED nonLG

\* handle_toggle_repeat, host only: off, one, all in turn.
handle_toggle_repeat(sid) ==
    /\ LGInRoom(sid)
    /\ lgHost = sid
    /\ lgRoom' = [lgRoom EXCEPT !.repeat_mode = CASE @ = "off" -> "one"
                                                  [] @ = "one" -> "all"
                                                  [] @ = "all" -> "off"]
    /\ LGNoTransition("toggle_repeat")
    /\ UNCHANGED <<lgSongs, lgUsers, lgHost, lgVotes>>
    /\ UNCHANGED nonLG

\* handle_sync_time: a client reports its playback time and state.
handle_sync_time(sid, time, is_playing) ==
    /\ LGInRoom(sid)
    /\ lgRoom' = [lgRoom EXCEPT !.playback_time = time, !.is_playing = is_playing]
    /\ LGNoTransition("sync_time")
    /\ UNCHANGED <<lgSongs, lgUsers, lgHost, lgVotes>>
    /\ UNCHANGED nonLG

\* votes_needed = max(1, len(state['users']) // 2 + 1)
LGVotesNeeded(n) == IF (n \div 2) + 1 > 1 THEN (n \div 2) + 1 ELSE 1

\* handle_vote_skip: the vote is added; the host's vote, or enough votes,
\* call play_next_song_in_room.
handle_vote_skip(sid) ==
    /\ LGInRoom(sid)
    /\ LET votes == lgVotes \cup {sid}
       IN IF lgHost = sid \/ Cardinality(votes) >= LGVotesNeeded(Len(lgUsers))
          THEN LGTransition("vote_skip")
          ELSE /\ lgVotes' = votes
               /\ LGNoTransition("vote_skip")
               /\ UNCHANGED <<lgRoom, lgSongs>>
    /\ UNCHANGED <<lgUsers, lgHost>>
    /\ UNCHANGED nonLG

\* handle_song_ended: play_next_song_in_room.
handle_song_ended(sid) ==
    /\ LGInRoom(sid)
    /\ LGTransition("song_ended")
    /\ UNCHANGED <<lgUsers, lgHost>>
    /\ UNCHANGED nonLG

InitLG ==
    /\ lgRoom = [repeat_mode |-> "off", current_song_id |-> 0, playback_time |-> 0,
                 is_playing |-> TRUE]
    /\ lgSongs = <<>>
    /\ lgUsers = <<>>
    /\ lgHost = 0
    /\ lgVotes = {}
    /\ lgLast = [handler |-> "none", branch |-> "none", now_playing |-> 0]

NextLG ==
    \/ \E sid \in LGUserSet : handle_join_room(sid)
    \/ \E sid \in LGUserSet : handle_disconnect(sid)
    \/ \E sid \in LGUserSet : handle_add_to_queue(sid)
    \/ \E sid \in LGUserSet, s \in 1..LGSongs : handle_remove_from_queue(sid, s)
    \/ \E sid \in LGUserSet : handle_toggle_repeat(sid)
    \/ \E sid \in LGUserSet, t \in LGTimeSet, p \in BOOLEAN : handle_sync_time(sid, t, p)
    \/ \E sid \in LGUserSet : handle_vote_skip(sid)
    \/ \E sid \in LGUserSet : handle_song_ended(sid)

\* ====================================================================
\* Specifications
\* ====================================================================
Init ==
    /\ InitRL
    /\ InitPB
    /\ InitAV
    /\ InitQ
    /\ InitWS
    /\ InitYT
    /\ InitPR
    /\ InitLG

\* The components other than the queue endpoints do not depend on the queue
\* of the room: their specifications start with the empty queue.
InitEmptyQueue == Init /\ QRoomEmpty

SpecRL == InitEmptyQueue /\ [][NextRL]_vars

SpecVote == InitEmptyQueue /\ [][NextAV]_vars

SpecQueue == Init /\ [][NextQ]_vars

SpecWS == InitEmptyQueue /\ [][NextWS]_vars

\* The event loop runs a task that is ready: the sleep of a crashed
\* listener ends and its restart is executed.
SpecWSLive == SpecWS /\ WF_vars(ws_listener_restart)

SpecPB == InitEmptyQueue /\ [][NextPB]_vars

SpecPBStore == InitEmptyQueue /\ [][NextPBStore]_vars

SpecYT == InitEmptyQueue /\ [][NextYT]_vars

\* Time passes and the event loop runs a coroutine that is ready; a
\* subprocess ends, or its timeout expires and it is killed.
SpecYTLive == InitEmptyQueue /\ [][NextYTLive]_vars /\ WF_vars(NextYTLive)

\* Time passes and the event loop runs a coroutine that is ready.
SpecYTCrash == InitEmptyQueue /\ [][NextYTCrash]_vars /\ WF_vars(NextYTCrash)

SpecPresence == InitEmptyQueue /\ [][NextPR]_vars

SpecLegacy == InitEmptyQueue /\ [][NextLG]_vars

\* ====================================================================
\* Claims
\* ====================================================================

\* C9 (first clause): the first N requests on a key within a window are
\* admitted: a request that finds fewer than N requests of the window
\* before it is admitted.
C9_FirstNAdmitted ==
    \A k \in RLKeySet : rlLast[k].t # -1 /\ rlLast[k].seenBefore < RLLimit => rlLast[k].allowed

\* C9 (third clause): once the window has elapsed since the admitted
\* requests on a key (none of them lies in the window any more), a new
\* request on that key is admitted, even if requests were rejected in the
\* meantime.
C9_AdmittedAfterWindow ==
    \A k \in RLKeySet : rlLast[k].t # -1 /\ rlLast[k].admittedBefore = 0 => rlLast[k].allowed

\* C8: after a Play(item, p) stamped at T0 that no other mutation overlapped,
\* the effective position read at time t is p + (t - T0); after a PauseAt(p)
\* it is exactly p at every later time, until the next mutation starts.
C8_EffectivePosition ==
    PBQuiet /\ pbLast.solo =>
        /\ pbLast.kind = "play" =>
              EffectivePosition(get_room_state(pbHash), pbNow) = pbLast.pos + (pbNow - pbLast.t0)
        /\ pbLast.kind = "pause_at" =>
              EffectivePosition(get_room_state(pbHash), pbNow) = pbLast.pos

\* C8 witness: a Play at position p > 0 has completed alone and time has
\* passed since its stamp; and the same for a PauseAt.
C8_Witness ==
    /\ PBQuiet /\ pbLast.solo /\ pbLast.kind = "pause_at" /\ pbLast.pos > 0
    /\ pbNow > pbLast.t0
    /\ pbHash["current_song_id"] # Absent

\* C5: every AddVote call reports the number of distinct voter identities
\* that have voted on the item up to its reply; in particular a repeated
\* vote by one identity does not raise the count.
C5_DistinctVoters ==
    \A c \in AVCallSet : avCall[c].pc = "done" =>
        avCall[c].count = DistinctCount(avLog[avCall[c].item], avCall[c].at)

\* C5 witness: a call has replied after the same identity voted twice on
\* the item and another identity once.
C5_Witness ==
    \E c \in AVCallSet :
        /\ avCall[c].pc = "done"
        /\ avCall[c].at >= 3
        /\ avCall[c].count = 2

\* C3: at most one song of the room has status playing at any time.
C3_AtMostOnePlaying == Cardinality(Playing) <= 1

\* C4: of two song_ended signals sent for the same playing item, the
\* second does not mark as played the item that the first one started.
C4_SongEndedOnce ==
    [][\A r \in QReqSet :
          /\ qReq[r].kind = "song_ended" /\ qReq[r].intent # 0
          /\ qReq[r].pc = "C_mark" /\ qReq'[r].pc = "C_clear"
          => ~(qReq[r].cur # qReq[r].intent /\ qSongs[qReq[r].cur].by = qReq[r].intent)]_vars

\* The step with which vote_skip returns after having counted the votes.
VoteSkipReturns(r) ==
    qReq[r].kind = "vote_skip" /\ qReq[r].pc = "V_publish" /\ qReq'[r].pc = "idle"

AddToQueueEnds(r) ==
    qReq[r].kind = "add_to_queue" /\ qReq[r].pc # "idle" /\ qReq'[r].pc = "idle"

AddToQueuePubs(r) ==
    IF qReq[r].pc = "B_publish" THEN Append(qReq[r].pubs, BroadcastEvent(r)) ELSE qReq[r].pubs

\* C7: an add_to_queue that read the room as idle marks one item playing and
\* publishes exactly a playback_update with status playing and then a
\* queue_update with an empty queue; one that read it as not idle publishes
\* exactly a queue_update that lists the new item, and writes no field of
\* the playback state.
C7_AddToQueueEvents ==
    [][\A r \in QReqSet :
          /\ AddToQueueEnds(r) =>
                LET pubs == AddToQueuePubs(r)
                IN /\ qReq[r].saw = "idle" =>
                       /\ Len(pubs) = 2
                       /\ pubs[1].type = "playback_update" /\ pubs[1].status = "playing"
                       /\ pubs[2].type = "queue_update" /\ pubs[2].queue = <<>>
                   /\ qReq[r].saw = "busy" =>
                       /\ Len(pubs) = 1
                       /\ pubs[1].type = "queue_update"
                       /\ \E j \in 1..Len(pubs[1].queue) : pubs[1].queue[j] = qReq[r].newid
          /\ qReq[r].kind = "add_to_queue" /\ qReq[r].saw = "busy" /\ qReq'[r] # qReq[r] =>
                qHash' = qHash]_vars

\* C10: once the last local connection of a room is gone and the process has
\* no work left for the room, the process is unsubscribed from the room's
\* channel and the room is not in its subscribed set.
C10_UnsubscribedWhenEmpty ==
    \A r \in WSRoomSet :
        wsConns[r] = {} /\ WSQuiet(r) => r \notin wsSubscribed /\ r \notin wsRedisSub

\* C1: for every media id, at every moment, at most one extraction
\* subprocess for that id is running, over all server processes.
C1_OneSubprocessPerId ==
    \A v \in YTVidSet : Cardinality(Extracting(v)) <= 1

\* Calls for the same media id that are in progress together, each after a
\* cache miss.
YTConcurrent(c, d) ==
    /\ c # d
    /\ YTActive(c) /\ YTActive(d)
    /\ ytCall[c].kind = "resolve" /\ ytCall[d].kind = "resolve"
    /\ ytCall[c].vid = ytCall[d].vid
    /\ ytCall[c].cached = 0 /\ ytCall[d].cached = 0

\* C2: concurrent calls for the same media id with an empty cache invoke
\* one subprocess in total: of two such calls in progress, at most one has
\* started a subprocess.
C2_OneSubprocessInTotal ==
    \A c, d \in YTCallSet : YTConcurrent(c, d) => ~(ytCall[c].spawned /\ ytCall[d].spawned)

\* C11: once the pending subscribe and unsubscribe operations of the process
\* are over, the process is subscribed to the channel of every room that
\* has a local connection (the "if" half of: subscribed if and only if at
\* least one local connection is attached).
C11_SubscribedWhenConnected ==
    \A r \in WSRoomSet :
        wsConns[r] # {} /\ WSQuiet(r) => r \in wsSubscribed /\ r \in wsRedisSub

\* What a reader of the PlaybackState sees in a field of get_room_state.
PBRead(f) == get_room_state(pbHash)[f]

\* C12: in the stored PlaybackState, status = idle implies that the current
\* item id is empty and position_ms = 0; checked in the states in which no
\* mutation is in progress.
C12_IdleHasNoItemNoPosition ==
    PBQuiet /\ PBRead("status") = Str("idle") =>
        /\ PBRead("current_song_id") = Str(NoSongId)
        /\ PBRead("position_ms") = Str(0)

\* The stored state holds every value of the updates of mutation o.
PBWritten(h, o) ==
    \A j \in 1..Len(pbOp[o].upd) : h[pbOp[o].upd[j][1]] = Str(pbOp[o].upd[j][2])

\* C13: a mutation writes the fields it owns as one atomic step: whenever a
\* step of a mutation that runs alone changes the stored state, a reader of
\* the new state finds all the fields of the mutation written.
C13_AtomicFieldWrite ==
    [][\A o \in PBOpSet :
          PBActive(o) /\ pbOp[o].solo /\ pbOp'[o] # pbOp[o] /\ pbHash' # pbHash
              => PBWritten(pbHash', o)]_vars

\* A call that has acquired the lock and has not finished.
YTHolder(c) == ytCall[c].pc \in {"locked", "semwait", "running", "release", "notify"}

C15_TransitionSurvivesResolution ==
    [][\A r \in QReqSet :
          qReq[r].pc = "T_extract" /\ qReq'[r] # qReq[r] =>
              /\ \/ qReq'[r].pc = "T_seturl"
                 \/ qReq'[r].pc = "T_publish" /\ qReq'[r].url = 0
              /\ qSongs'[qReq[r].next].status = "playing"]_vars

\* No request of the room is in progress.
QQuiet == \A r \in QReqSet : ~QInFlight(r)

\* C16: the vote set of every item that is not the playing item is empty;
\* checked in the states in which no request is in progress, so that a vote
\* set between the status change of its item and its clearing does not count.
C16_NoVotesOffCurrent ==
    QQuiet => \A s \in QSongSet : s \notin Playing => qVotes[s] = {}

\* The status changes that a QueueItem may make.
QForward == {<<"queued", "playing">>, <<"playing", "played">>, <<"playing", "skipped">>}

\* C17: the status of every item only moves forward along
\* queued -> playing -> {played, skipped}: every step that changes the
\* status of an item makes one of these moves.
C17_StatusMovesForward ==
    [][\A s \in SongIds :
          qSongs'[s].status # qSongs[s].status =>
              <<qSongs[s].status, qSongs'[s].status>> \in QForward]_vars

\* The stored state of a room before its first mutation.
PBEmptyHash == [f \in PBFields |-> Absent]

\* C18: a playback mutation that fails because a store call fails leaves
\* the room's state as it was before the request; checked for the first
\* mutation of a room, run alone, whose state before the request is the
\* empty hash.
C18_FailedMutationLeavesState ==
    [][\A o \in PBOpSet :
          /\ PBActive(o) /\ pbOp[o].solo /\ pbLast.kind = "none"
          /\ pbLast'.kind = "failed" /\ ~PBActive(o)'
          => pbHash' = PBEmptyHash]_vars

\* C19: in every process, the subprocesses running at one time (searches,
\* extractions and refreshes together, over all media ids) are at most
\* MAX_CONCURRENT.
C19_SubprocessCap ==
    \A p \in YTProcSet : Cardinality(Running(p)) <= MAX_CONCURRENT

\* A process runs MAX_CONCURRENT subprocesses, a refresh among them, and
\* another call of the process waits for the semaphore.
C19_Witness ==
    \E p \in YTProcSet :
        /\ Cardinality(Running(p)) = MAX_CONCURRENT
        /\ \E c \in Running(p) : ytCall[c].kind = "refresh"
        /\ \E c \in YTCallSet : ytCall[c].proc = p /\ ytCall[c].pc = "semwait"

\* The fields of the full PlaybackState snapshot.
SnapshotFields == {"status", "current_song_id", "position_ms", "updated_at", "speed", "stream_url"}

\* C20: every playback_update published carries the full PlaybackState
\* snapshot: when a mutation returns its updates, which the endpoint
\* publishes as playback_update, they hold every snapshot field.
C20_FullSnapshotPublished ==
    [][\A o \in PBOpSet :
          PBActive(o) /\ ~PBActive(o)' /\ pbLast'.kind # "failed"
              => SnapshotFields \subseteq playback_update_fields(pbOp[o].upd)]_vars

\* C21: the participant set holds exactly the identities that joined and
\* have not disconnected: when the websocket session of a user closes, the
\* user is not a member afterwards, so ParticipantCount does not count it.
C21_ClosedConnectionLeavesSet ==
    [][\A u \in QUserSet :
          prWs[u].pc = "receiving" /\ prWs'[u].pc = "closed"
              => /\ u \notin qUsers'
                 /\ get_participant_count(qUsers') = get_participant_count(qUsers \ {u})]_vars

\* C22: a VoteSkip cast by the room's host forces the transition whatever
\* the tally and the participant count are: the threshold check of a
\* vote_skip request of the host always goes on to skip the current item.
C22_HostVoteForcesTransition ==
    [][\A r \in QReqSet :
          /\ qReq[r].kind = "vote_skip" /\ qReq[r].user = QHost
          /\ qReq[r].pc = "V_count" /\ qReq'[r].pc # "V_count"
          => qReq'[r].pc = "C_load"]_vars

\* C23: a get_or_extract_stream call that did not get the extraction lock
\* never starts a subprocess: it polls the cache for at most LOCK_POLL_MAX
\* intervals, returns the URL as soon as a poll finds one, and raises
\* ExtractionError only after LOCK_POLL_MAX polls that found nothing.
C23_LockLoserPollsCache ==
    [][\A c \in YTCallSet :
          ytCall[c].pc = "poll" =>
              /\ ytCall'[c].pc \in {"poll", "done"}
              /\ c \notin Running(ytCall[c].proc)'
              /\ ytCall'[c].elapsed <= LockPollTicks
              /\ ytCall'[c].pc = "poll" /\ ytCache[ytCall[c].vid] # 0
                     => ytCall'[c].elapsed = ytCall[c].elapsed
              /\ ytCall'[c].pc = "done" =>
                     \/ ytCache[ytCall[c].vid] # 0 /\ ytCall'[c].result = "url"
                     \/ /\ ytCache[ytCall[c].vid] = 0
                        /\ ytCall[c].elapsed = LockPollTicks
                        /\ ytCall'[c].result = "ExtractionError"]_vars

\* A call has polled LOCK_POLL_MAX times without a hit.
C23_Witness ==
    \E c \in YTCallSet :
        /\ ytCall[c].pc = "poll"
        /\ ytCall[c].elapsed = LockPollTicks
        /\ ytCache[ytCall[c].vid] = 0

\* C24: a get_or_extract_stream call that found an extraction in flight in
\* its own process ends in one of two ways only: it returns the cached URL,
\* or it raises ExtractionError; and it never starts a subprocess.
C24_InflightWaiterOutcome ==
    [][\A c \in YTCallSet :
          ytCall[c].pc = "wait" =>
              /\ ytCall'[c].pc \in {"wait", "done"}
              /\ ytCall'[c].pc = "done" => ytCall'[c].result \in {"url", "ExtractionError"}]_vars

\* C25: a transition that starts a new item selects, among the queued
\* items, the one with the smallest position and, among equal positions,
\* the smallest record id.
C25_SelectsSmallestPositionThenId ==
    [][\A r \in QReqSet :
          qReq[r].pc = "T_select" /\ qReq'[r].pc = "T_mark" =>
              LET s == qReq'[r].next
              IN /\ s \in Queued
                 /\ \A t \in Queued :
                       \/ qSongs[s].position < qSongs[t].position
                       \/ qSongs[s].position = qSongs[t].position /\ s <= t]_vars

\* The positions of the events of a type among those a request published.
QPublished(r, type) == {j \in 1..Len(qReq[r].pubs) : qReq[r].pubs[j].type = type}

\* C26: within one transition playback_update is published before
\* queue_update, and both after the status of the next row and the
\* playback state of the transition have been written.
C26_PublishOrder ==
    \A r \in QReqSet :
        /\ \A j \in QPublished(r, "queue_update"), k \in QPublished(r, "playback_update") : k < j
        /\ qReq[r].wrote # {} /\ qReq[r].pc \in {"B_queued", "B_playing", "B_url", "B_publish"}
               => QPublished(r, "playback_update") # {} /\ QPublished(r, "queue_update") = {}
        /\ \A k \in QPublished(r, "playback_update") :
               \/ qReq[r].wrote = {} /\ qReq[r].pc = "V_publish"
               \/ qReq[r].pubs[k].status = "playing" /\ qReq[r].wrote = {"song", "playback"}
               \/ qReq[r].pubs[k].status = "idle" /\ qReq[r].wrote = {"playback"}

\* A vote_skip request whose transition has published both events.
C26_Witness ==
    \E r \in QReqSet :
        /\ qReq[r].pc = "V_publish"
        /\ Len(qReq[r].pubs) = 2
        /\ qReq[r].pubs[1].type = "playback_update"
        /\ qReq[r].pubs[2].type = "queue_update"

\* C27: when a transition finds no queued item and the previously current
\* item has been marked played or skipped, the playback_update it publishes
\* is the idle state and the queue_update that follows has no now_playing
\* and an empty queue.
C27_IdleTransitionEvents ==
    [][\A r \in QReqSet :
          /\ qReq[r].pc = "B_publish" /\ qReq'[r] # qReq[r]
          /\ qReq[r].wrote = {"playback"}
          /\ qReq[r].cur \in SongIds
          /\ qSongs[qReq[r].cur].status \in {"played", "skipped"}
          => /\ qReq[r].pubs[Len(qReq[r].pubs)] = PlaybackUpdate("idle", 0, 0)
             /\ BroadcastEvent(r) = QueueUpdate(<<>>, 0, 0)]_vars

\* The last handler was song_ended or a vote_skip that skipped: it ran a
\* transition on the room as it stood.
LGTransitioned(last) == last.handler \in {"song_ended", "vote_skip"} /\ last.branch # "none"

\* C28: under repeat-one with a current item, every transition (song ended
\* or skip) plays the same item again at position 0 and leaves the songs
\* of the room, queued or not, and their order as they are.
C28_RepeatOneReplays ==
    [][LGTransitioned(lgLast') /\ lgRoom.repeat_mode = "one" /\ lgRoom.current_song_id # 0
           => /\ lgRoom'.current_song_id = lgRoom.current_song_id
              /\ lgRoom'.playback_time = 0
              /\ lgRoom'.is_playing
              /\ lgLast'.now_playing = lgRoom.current_song_id
              /\ lgSongs' = lgSongs]_vars

\* A transition has played the current item again while songs are queued.
C28_Witness ==
    /\ LGTransitioned(lgLast)
    /\ lgLast.branch = "repeat_one"
    /\ lgRoom.playback_time = 0
    /\ LGQueued(lgSongs) # {}

\* C29: under repeat-all, a transition that finds no queued item while the
\* room has items queues all of them again once and selects anew: the room
\* does not become idle, the item played has the smallest position, and
\* every other item is queued.
C29_RepeatAllRequeues ==
    [][/\ LGTransitioned(lgLast')
       /\ lgRoom.repeat_mode = "all"
       /\ LGQueued(lgSongs) = {}
       /\ LGExisting(lgSongs) # {}
       => LET n == lgRoom'.current_song_id
          IN /\ lgLast'.branch = "requeue_next"
             /\ n \in LGExisting(lgSongs)
             /\ lgLast'.now_playing = n
             /\ \A t \in LGExisting(lgSongs) : lgSongs[n].order <= lgSongs[t].order
             /\ LGQueued(lgSongs') = LGExisting(lgSongs) \ {n}
             /\ \A t \in LGExisting(lgSongs) : lgSongs'[t].order = lgSongs[t].order]_vars

\* A transition has queued the items of a room of several items again.
C29_Witness ==
    /\ LGTransitioned(lgLast)
    /\ lgLast.branch = "requeue_next"
    /\ Cardinality(LGExisting(lgSongs)) >= 2

\* C30: when the shared listener task crashes while rooms are subscribed, a
\* listener task is eventually running again, and at no time do two
\* listener tasks read the PubSub connection of the process.
C30_ListenerRestarts ==
    /\ [](wsListener.readers <= 1)
    /\ (wsListener.state = "restarting" /\ wsSubscribed # {})
           ~> (wsListener.state \in {"listening", "broadcast"} /\ wsListener.readers = 1)

\* The listener runs again after a crash, with a room subscribed.
C30_Witness ==
    /\ wsListener.crashes > 0
    /\ wsListener.state = "listening"
    /\ wsListener.readers = 1
    /\ wsSubscribed # {}

\* C31: in a relay, a connection whose send fails is removed from the
\* registry at the end of that relay, a send is attempted on every
\* connection of the room's list, and when the pruning empties the room the
\* unsubscribe task it creates, started for the still empty room, leaves
\* the process unsubscribed from the room's channel.
C31_RelayPrunesAndUnsubscribes ==
    [][/\ (wsListener.state = "broadcast" /\ wsListener'.state = "listening" =>
              LET r == wsListener.room
              IN /\ wsListener.todo = {}
                 /\ wsConns'[r] = wsConns[r] \ wsListener.dead
                 /\ \A w \in wsListener.dead : ~wsSock[w].alive
                 /\ (wsConns[r] # {} /\ wsConns'[r] = {} => wsUnsub'[r].new = wsUnsub[r].new + 1))
       /\ \A r \in WSRoomSet :
              /\ wsUnsub[r].relay
              /\ wsUnsub'[r].new < wsUnsub[r].new
              /\ wsConns[r] = {}
              => r \notin wsRedisSub']_vars

YTOrphanLock(vid) == LockHeld(vid) /\ LockHolders(vid) = {}

\* C33: a lock never has more than LOCK_TTL to live; a lock left by a
\* crashed holder expires; and a call that reaches the SET NX of a media id
\* whose lock has expired acquires the lock and goes on to extract.
C33_CrashedHolderLockExpires ==
    /\ [](\A v \in YTVidSet : ytLock[v] <= LockTicks)
    /\ \A v \in YTVidSet : YTOrphanLock(v) ~> ~LockHeld(v)
    /\ [][\A c \in YTCallSet :
              /\ ytCall[c].pc = "cache" /\ ytCall[c].cached = 0
              /\ ytCall'[c].pc \notin {"cache", "wait", "done"}
              /\ ~LockHeld(ytCall[c].vid)
              => /\ ytCall'[c].pc = "locked"
                 /\ ytLock'[ytCall[c].vid] = LockTicks]_vars

\* After a holder has crashed, a later call runs the subprocess for the
\* media id.
C33_Witness ==
    /\ \E c \in YTCallSet : ytCall[c].result = "crashed"
    /\ \E d \in YTCallSet : ytCall[d].kind = "resolve" /\ ytCall[d].pc = "running"

\* C34: every get_or_extract_stream call eventually returns a URL or
\* raises, whichever path it takes: infinitely often no such call is in
\* progress, and a call that is over has returned a URL or raised.
C34_ResolveTerminates ==
    /\ []<>(\A c \in YTCallSet : ytCall[c].kind = "resolve" => ~YTActive(c))
    /\ [](\A c \in YTCallSet :
              ytCall[c].kind = "resolve" /\ ytCall[c].pc = "done"
                  => ytCall[c].result \in {"url", "ExtractionError", "TimeoutError"})

\* Every call is over, and one of them has waited for the event of an
\* extraction that itself waited for the semaphore, until its timeout.
C34_Witness ==
    /\ \A c \in YTCallSet : ytCall[c].pc = "done"
    /\ \E c \in YTCallSet : ytCall[c].kind = "resolve" /\ ytCall[c].result = "TimeoutError"

\* C35: while a refresh_stream call runs its extraction subprocess for a
\* media id, no other extraction subprocess (of a get_or_extract_stream or
\* of another refresh_stream, in any process) runs for that id.
C35_RefreshExtractsAlone ==
    \A c, d \in YTCallSet :
        /\ c # d
        /\ ytCall[c].kind = "refresh" /\ ytCall[c].pc = "running"
        /\ ytCall[d].kind \in {"resolve", "refresh"} /\ ytCall[d].pc = "running"
        => ytCall[d].vid # ytCall[c].vid

\* C36: the lock of a media id does not lapse while the call that acquired
\* it waits for the semaphore or runs the subprocess.
C36_LockHeldWhileResolving ==
    \A v \in YTVidSet : \A c \in LockHolders(v) :
        ytCall[c].pc \in {"semwait", "running"} => LockHeld(v)

\* C37: while no request is in progress, the stream_url stored in the
\* room's playback state is empty or is the URL resolved for the room's
\* current item; in particular it is empty when the room is idle.
C37_StreamUrlOfCurrentItem ==
    (\A r \in QReqSet : ~QInFlight(r)) =>
        \/ get_stream_url(qHash) = 0
        \/ /\ ~IsIdle(qHash)
           /\ qHash["current_song_id"] # Absent
           /\ get_stream_url(qHash) = StreamUrl(ParseInt(qHash["current_song_id"]))

\* The record that the playback state names as current is a playing row.
QCurrentPlaying ==
    get_current_song_db_id(qHash) \in SongIds
        /\ qSongs[get_current_song_db_id(qHash)].status = "playing"

\* C38: while no request is in progress, the playback state names a
\* playing record as current if and only if its status is not idle; that
\* record is then the only playing row, and its media id is the state's
\* current_song_id.
C38_PlaybackAgreesWithRecords ==
    (\A r \in QReqSet : ~QInFlight(r)) =>
        /\ QCurrentPlaying <=> ~IsIdle(qHash)
        /\ QCurrentPlaying =>
               /\ Playing = {get_current_song_db_id(qHash)}
               /\ qHash["current_song_id"] # Absent
               /\ ParseInt(qHash["current_song_id"]) = YtId(get_current_song_db_id(qHash))

\* C39: every row has a position greater than the position of every row
\* inserted before it (rows get their ids in the order of insertion), so no
\* two rows of the room share a position.
C39_PositionsIncrease ==
    \A s, t \in SongIds : s < t => qSongs[s].position < qSongs[t].position

\* C40: for every key, the requests admitted within any window (the window
\* that ends now, at every moment) are at most the limit, also when several
\* requests on the key carry the same timestamp.
C40_AtMostLimitPerWindow ==
    \A k \in RLKeySet : InWindow(rlAdmitted[k], rlNow, RLWindow) <= RLLimit

====
